---- MODULE Spec2Model ----
(***************************************************************************)
(* Verification model of poke (ai-mindset/poke): the review aggregation    *)
(* and merge of fetchAllViews, the --update operation on ~/.poke/todo.json,*)
(* the notification prioritiser, the issue keys and the listing run of     *)
(* main with its to-do and standard displays.                              *)
(*                                                                         *)
(* Strings that the program takes apart or compares character by character *)
(* (repository names, issue keys, notes) are sequences of one-character    *)
(* strings; a multi-character element stands for an atomic run of          *)
(* characters (a note body, a date).                                       *)
(***************************************************************************)
EXTENDS Integers, Sequences, FiniteSets, TLC

\* ------------------------------------------------------------------ bounds
\* longest result list of one required search query
MaxLen == 2
\* longest result list of one per-team search query
MaxTeamLen == 1

\* ----------------------------------------------------------------- helpers
SeqsUpTo(S, n) == UNION {[1..k -> S] : k \in 0..n}

Range(s) == {s[i] : i \in 1..Len(s)}

\* ======================================================================
\* Review aggregation: fetchAllViews (src/poke.ts 107-183)
\* ======================================================================

\* GitHubIssue records as returned by searchGitHub; ids 1 and 3 share
\* repository and number, ids 1 and 2 share the number only.
ReviewItems ==
    { [id |-> 1, number |-> 7, full_name |-> <<"a", "/", "x">>],
      [id |-> 2, number |-> 7, full_name |-> <<"a", "/", "y">>],
      [id |-> 3, number |-> 7, full_name |-> <<"a", "/", "x">>] }

\* results of the four searches whose lists are returned as fetched
AssignedIssue == [id |-> 4, number |-> 1, full_name |-> <<"a", "/", "r">>]

AssignedIssue2 == [id |-> 5, number |-> 12, full_name |-> <<"a", "/", "r">>]

PassThroughResults ==
    { [todo |-> <<>>, done |-> <<>>, reviewed |-> <<>>, mentioned |-> <<>>],
      [todo |-> <<AssignedIssue, AssignedIssue2>>, done |-> <<>>, reviewed |-> <<>>,
       mentioned |-> <<>>],
      [todo |-> <<AssignedIssue>>, done |-> <<>>, reviewed |-> <<>>, mentioned |-> <<>>],
      [todo |-> <<>>, done |-> <<>>, reviewed |-> <<>>, mentioned |-> <<AssignedIssue>>],
      [todo |-> <<AssignedIssue>>, done |-> <<AssignedIssue>>,
       reviewed |-> <<AssignedIssue>>, mentioned |-> <<AssignedIssue>>] }

\* the five searches of Promise.all, by the name of the list they fill
RequiredQueries == <<"todo", "done", "personalReviews", "reviewed", "mentioned">>

OrgArgs == { <<>>, <<"a">> }
OrgConfigs == { <<>>, << <<"a">> >> }
TeamConfigs == { <<>>, << "t1" >>, << "t1", "t2" >> }

VARIABLES
    aggPc,          \* position of fetchAllViews
    org,            \* the org argument (empty string: undefined)
    WORK_ORGS,      \* configured work organisations
    WORK_TEAMS,     \* configured teams
    fetched,        \* results of the five required queries
    teamReviews,    \* accumulated team review results
    teamIdx,        \* index of the next team to query
    teamFailed,     \* teams whose query failed (history)
    views,          \* the returned views
    queries         \* the searches issued, in order: [name, ok, items] (history)

aggVars == <<aggPc, org, WORK_ORGS, WORK_TEAMS, fetched, teamReviews, teamIdx, teamFailed,
             views, queries>>

VARIABLES
    file,           \* ~/.poke/todo.json: [kind, issues]
    remotePuts,     \* label PUT requests issued to the remote (history)
    updPc,          \* position of the running poke --update invocation
    args,           \* [issueKey, rawStatus, hasNote, note] of the invocation
    now,            \* the clock read by new Date()
    runs,           \* number of invocations started
    updated,        \* outcome of updateIssueStatus: "none", "true", "false", "threw"
    issueResponse,  \* outcome of the issue-details fetch: "none", "ok", "notok"
    todoData,       \* the in-memory TodoStorage handed to saveTodoData
    saveResult,     \* "none", "ok", "failed"
    fileAtStart,    \* the file when the invocation started (history)
    noteLog         \* the note updates that were saved (history)

updVars == <<file, remotePuts, updPc, args, now, runs, updated, issueResponse,
             todoData, saveResult, fileAtStart, noteLog>>

VARIABLES
    prioPc,         \* "input", "sorted", "twice"
    NOTIFY_ORGS,    \* WORK_ORGS of the notification script
    given,          \* the list the caller built (history)
    notifications,  \* the caller's list, as it is after the call
    prioritised,    \* prioritiseNotifications(notifications)
    again           \* prioritiseNotifications(prioritised)

prioVars == <<prioPc, NOTIFY_ORGS, given, notifications, prioritised, again>>

VARIABLES
    listPc,         \* position of the listing run of main
    todoMode,       \* --todo was given
    rendered,       \* what the run has printed: a sequence of sections
    notified,       \* the items handed to the desktop notification
    exitCode        \* "running", "0" or "1"

listVars == <<listPc, todoMode, rendered, notified, exitCode>>

VARIABLES
    keyPc,          \* "item", "formatted", "parsed"
    keyItem,        \* [owner, repo, number] of a remote item
    formatted,      \* getIssueKey of the item
    parsed          \* what the update operation makes of the key

keyVars == <<keyPc, keyItem, formatted, parsed>>

VARIABLES
    show            \* the invocations carry --show next to --update

cliVars == <<show>>

VARIABLES
    racePc,         \* per concurrent invocation: "load", "save" or "done"
    raceArgs,       \* per concurrent invocation: its [issueKey, rawStatus, hasNote, note]
    raceData,       \* per concurrent invocation: its in-memory TodoStorage
    raceOrder       \* the loads and saves in the order they happened (history)

raceVars == <<racePc, raceArgs, raceData, raceOrder>>

VARIABLES
    ntfPc,                  \* "args", "parsed", "prepared"
    notificationCountArg,   \* the -n= / --gui_notifications= argument, <<>> when absent
    notificationCount,      \* [nan, value] of the parsed count
    ntfViews,               \* the views handed to the notification step
    notificationItems       \* the items of the desktop notification

ntfVars == <<ntfPc, notificationCountArg, notificationCount, ntfViews, notificationItems>>

vars == <<aggVars, updVars, prioVars, listVars, keyVars, cliVars, raceVars, ntfVars>>

NoViews == [todo |-> <<>>, done |-> <<>>, toReview |-> <<>>, reviewed |-> <<>>, mentioned |-> <<>>]

NoFetched == [todo |-> <<>>, done |-> <<>>, personalReviews |-> <<>>, reviewed |-> <<>>, mentioned |-> <<>>]

\* mutant: a built-in organisation when none is given or configured
orgNameBuiltIn(o, orgs) == IF o # <<>> THEN o ELSE IF Len(orgs) > 0 THEN orgs[1] ELSE <<"a">>

\* const orgName = org || (WORK_ORGS.length > 0 ? WORK_ORGS[0] : "")
orgName(o, orgs) == IF o # <<>> THEN o ELSE IF Len(orgs) > 0 THEN orgs[1] ELSE <<>>

\* for (const pr of personalReviews) { allReviews.push(pr); seenIds.add(pr.id); }
RECURSIVE AddPersonal(_, _, _)
AddPersonal(prs, i, acc) ==
    IF i > Len(prs) THEN acc
    ELSE AddPersonal(prs, i + 1,
            [allReviews |-> Append(acc.allReviews, prs[i]),
             seenIds |-> acc.seenIds \cup {prs[i].id}])

\* mutant: team items are put in front of the list
RECURSIVE AddTeamUnshift(_, _, _)
AddTeamUnshift(prs, i, acc) ==
    IF i > Len(prs) THEN acc
    ELSE AddTeamUnshift(prs, i + 1,
            IF prs[i].id \notin acc.seenIds
            THEN [allReviews |-> <<prs[i]>> \o acc.allReviews,
                  seenIds |-> acc.seenIds \cup {prs[i].id}]
            ELSE acc)

\* mutant: team items are recognised by their number
RECURSIVE AddTeamByNumber(_, _, _)
AddTeamByNumber(prs, i, acc) ==
    IF i > Len(prs) THEN acc
    ELSE AddTeamByNumber(prs, i + 1,
            IF \A k \in 1..Len(acc.allReviews) : acc.allReviews[k].number # prs[i].number
            THEN [allReviews |-> Append(acc.allReviews, prs[i]),
                  seenIds |-> acc.seenIds \cup {prs[i].id}]
            ELSE acc)

\* for (const pr of teamReviews) { if (!seenIds.has(pr.id)) { push; add } }
RECURSIVE AddTeam(_, _, _)
AddTeam(prs, i, acc) ==
    IF i > Len(prs) THEN acc
    ELSE AddTeam(prs, i + 1,
            IF prs[i].id \notin acc.seenIds
            THEN [allReviews |-> Append(acc.allReviews, prs[i]),
                  seenIds |-> acc.seenIds \cup {prs[i].id}]
            ELSE acc)

\* the review merge of fetchAllViews
MergeReviews(personal, team) ==
    AddTeam(team, 1, AddPersonal(personal, 1, [allReviews |-> <<>>, seenIds |-> {}])).allReviews

AggInit ==
    /\ aggPc = "start"
    /\ org \in OrgArgs
    /\ WORK_ORGS \in OrgConfigs
    /\ WORK_TEAMS \in TeamConfigs
    /\ fetched = NoFetched
    /\ teamReviews = <<>>
    /\ teamIdx = 1
    /\ teamFailed = {}
    /\ views = NoViews
    /\ queries = <<>>

\* if (!orgName) throw new Error("No organization specified ...")
NoOrganization ==
    /\ aggPc = "start"
    /\ orgName(org, WORK_ORGS) = <<>>
    /\ aggPc' = "failed"
    /\ UNCHANGED <<org, WORK_ORGS, WORK_TEAMS, fetched, teamReviews, teamIdx, teamFailed, views,
                   queries>>
    /\ UNCHANGED <<updVars, prioVars, listVars, keyVars, cliVars, raceVars, ntfVars>>

\* await Promise.all([...five searches...]): all five succeed
RequiredQueriesOk ==
    /\ aggPc = "start"
    /\ orgName(org, WORK_ORGS) # <<>>
    /\ \E personal \in SeqsUpTo(ReviewItems, MaxLen), o \in PassThroughResults :
          /\ fetched' = [todo |-> o.todo, done |-> o.done, personalReviews |-> personal,
                         reviewed |-> o.reviewed, mentioned |-> o.mentioned]
          /\ queries' = queries \o
                [i \in 1..Len(RequiredQueries) |->
                    [name |-> RequiredQueries[i], ok |-> TRUE, items |-> fetched'[RequiredQueries[i]]]]
    /\ aggPc' = "teams"
    /\ UNCHANGED <<org, WORK_ORGS, WORK_TEAMS, teamReviews, teamIdx, teamFailed, views>>
    /\ UNCHANGED <<updVars, prioVars, listVars, keyVars, cliVars, raceVars, ntfVars>>

\* mutant: a failing required search counts as an empty result
RequiredQueriesFailTolerated ==
    /\ aggPc = "start"
    /\ orgName(org, WORK_ORGS) # <<>>
    /\ \E failing \in (SUBSET Range(RequiredQueries)) \ {{}} :
          queries' = queries \o
                [i \in 1..Len(RequiredQueries) |->
                    [name |-> RequiredQueries[i], ok |-> RequiredQueries[i] \notin failing,
                     items |-> <<>>]]
    /\ aggPc' = "teams"
    /\ UNCHANGED <<org, WORK_ORGS, WORK_TEAMS, fetched, teamReviews, teamIdx, teamFailed, views>>
    /\ UNCHANGED <<updVars, prioVars, listVars, keyVars, cliVars, raceVars, ntfVars>>

\* await Promise.all([...]): the five searches are issued and at least one of
\* them throws; the results of the others are dropped
RequiredQueriesFail ==
    /\ aggPc = "start"
    /\ orgName(org, WORK_ORGS) # <<>>
    /\ \E failing \in (SUBSET Range(RequiredQueries)) \ {{}} :
          queries' = queries \o
                [i \in 1..Len(RequiredQueries) |->
                    [name |-> RequiredQueries[i], ok |-> RequiredQueries[i] \notin failing,
                     items |-> <<>>]]
    /\ aggPc' = "failed"
    /\ UNCHANGED <<org, WORK_ORGS, WORK_TEAMS, fetched, teamReviews, teamIdx, teamFailed, views>>
    /\ UNCHANGED <<updVars, prioVars, listVars, keyVars, cliVars, raceVars, ntfVars>>

\* one iteration of the team loop: the search succeeds
TeamQueryOk ==
    /\ aggPc = "teams"
    /\ teamIdx <= Len(WORK_TEAMS)
    /\ \E teamResults \in SeqsUpTo(ReviewItems, MaxTeamLen) :
          /\ teamReviews' = teamReviews \o teamResults
          /\ queries' = Append(queries, [name |-> WORK_TEAMS[teamIdx], ok |-> TRUE,
                                         items |-> teamResults])
    /\ teamIdx' = teamIdx + 1
    /\ UNCHANGED <<aggPc, org, WORK_ORGS, WORK_TEAMS, fetched, teamFailed, views>>
    /\ UNCHANGED <<updVars, prioVars, listVars, keyVars, cliVars, raceVars, ntfVars>>

\* mutant: a failing team search is not caught
TeamQueryFailAborts ==
    /\ aggPc = "teams"
    /\ teamIdx <= Len(WORK_TEAMS)
    /\ teamFailed' = teamFailed \cup {teamIdx}
    /\ queries' = Append(queries, [name |-> WORK_TEAMS[teamIdx], ok |-> FALSE, items |-> <<>>])
    /\ aggPc' = "failed"
    /\ UNCHANGED <<org, WORK_ORGS, WORK_TEAMS, fetched, teamReviews, teamIdx, views>>
    /\ UNCHANGED <<updVars, prioVars, listVars, keyVars, cliVars, raceVars, ntfVars>>

\* one iteration of the team loop: the search throws and is logged
TeamQueryFail ==
    /\ aggPc = "teams"
    /\ teamIdx <= Len(WORK_TEAMS)
    /\ teamFailed' = teamFailed \cup {teamIdx}
    /\ queries' = Append(queries, [name |-> WORK_TEAMS[teamIdx], ok |-> FALSE, items |-> <<>>])
    /\ teamIdx' = teamIdx + 1
    /\ UNCHANGED <<aggPc, org, WORK_ORGS, WORK_TEAMS, fetched, teamReviews, views>>
    /\ UNCHANGED <<updVars, prioVars, listVars, keyVars, cliVars, raceVars, ntfVars>>

\* the merge loops and the return statement
MergeAndReturn ==
    /\ aggPc = "teams"
    /\ teamIdx > Len(WORK_TEAMS)
    /\ views' = [todo |-> fetched.todo,
                 done |-> fetched.done,
                 toReview |-> MergeReviews(fetched.personalReviews, teamReviews),
                 reviewed |-> fetched.reviewed,
                 mentioned |-> fetched.mentioned]
    /\ aggPc' = "done"
    /\ UNCHANGED <<org, WORK_ORGS, WORK_TEAMS, fetched, teamReviews, teamIdx, teamFailed, queries>>
    /\ UNCHANGED <<updVars, prioVars, listVars, keyVars, cliVars, raceVars, ntfVars>>

\* ======================================================================
\* poke --update=KEY [--status=S] [--note=N]  (src/poke.ts 487-642)
\* ======================================================================

\* number of invocations in one behaviour
MaxRuns == 2

\* String.prototype.includes, for a one-character needle
includes(s, c) == \E i \in 1..Len(s) : s[i] = c

\* the first index of c in s from i on, 0 when there is none
RECURSIVE indexOf(_, _, _)
indexOf(s, c, i) ==
    IF i > Len(s) THEN 0
    ELSE IF s[i] = c THEN i ELSE indexOf(s, c, i + 1)

\* String.prototype.split, for a one-character separator
RECURSIVE split(_, _)
split(s, c) ==
    LET i == indexOf(s, c, 1) IN
    IF i = 0 THEN <<s>>
    ELSE <<SubSeq(s, 1, i - 1)>> \o split(SubSeq(s, i + 1, Len(s)), c)

Digits == <<"0", "1", "2", "3", "4", "5", "6", "7", "8", "9">>

IsDigit(c) == \E d \in 1..Len(Digits) : Digits[d] = c

DigitValue(c) == (CHOOSE d \in 1..Len(Digits) : Digits[d] = c) - 1

RECURSIVE digitsValue(_, _, _)
digitsValue(s, i, acc) ==
    IF i > Len(s) \/ ~IsDigit(s[i]) THEN acc
    ELSE digitsValue(s, i + 1, acc * 10 + DigitValue(s[i]))

RECURSIVE skipSpaces(_, _)
skipSpaces(s, i) == IF i <= Len(s) /\ s[i] = " " THEN skipSpaces(s, i + 1) ELSE i

\* parseInt(s) without a radix, on strings that do not start with 0x:
\* leading white space, an optional sign, then the longest run of digits
parseInt(s) ==
    LET i == skipSpaces(s, 1)
        signed == i <= Len(s) /\ s[i] \in {"-", "+"}
        j == IF signed THEN i + 1 ELSE i
        magnitude == digitsValue(s, j, 0)
    IN  IF j > Len(s) \/ ~IsDigit(s[j])
        THEN [nan |-> TRUE, value |-> 0]
        ELSE [nan |-> FALSE,
              value |-> IF signed /\ s[i] = "-" THEN 0 - magnitude ELSE magnitude]

\* Date.prototype.toISOString: the date, "T", the time of day
DayNames == <<"2024-01-01", "2024-01-02", "2024-01-03", "2024-01-04", "2024-01-05", "2024-01-06">>

TimeNames == <<"00:00:01.000Z", "00:00:02.000Z", "00:00:03.000Z", "00:00:04.000Z", "00:00:05.000Z", "00:00:06.000Z">>

toISOString(t) == <<DayNames[t.day], "T", TimeNames[t.tick]>>

\* the values of --update, --status and --note
IssueKeys ==
    { <<"a", "/", "r", "#", "1">>,
      <<"r", "#", "2", "x">>,
      <<"a", "/", "r">>,
      <<"a", "/", "r", "#", "x">> }

RawStatuses == { "", "in-progress", "blocked", "done" }

NoteTexts == { <<>>, <<"n1">>, <<"n2">> }

ArgSets ==
    [issueKey : IssueKeys, rawStatus : RawStatuses, hasNote : {TRUE}, note : NoteTexts]
    \cup [issueKey : IssueKeys, rawStatus : RawStatuses, hasNote : {FALSE}, note : {<<>>}]

NoArgs == [issueKey |-> <<>>, rawStatus |-> "", hasNote |-> FALSE, note |-> <<>>]

\* mutant: any --status value is taken
statusUnchecked(rawStatus) == rawStatus

\* rawStatus && [...].includes(rawStatus) ? rawStatus : null   ("" is null)
status(rawStatus) ==
    IF rawStatus \in {"backlog", "in-progress", "blocked", "review"} THEN rawStatus ELSE ""

\* const [repo, issueNumberStr] = issueKey.split("#")
repoOf(issueKey) == split(issueKey, "#")[1]

issueNumberStrOf(issueKey) == split(issueKey, "#")[2]

\* if (issueKey && (status || note !== null))
isUpdate(a) == a.issueKey # <<>> /\ (status(a.rawStatus) # "" \/ a.hasNote)

\* const [owner, repoName] = repo.split("/"); if (!owner || !repoName) return false
validRepo(repo) ==
    LET parts == split(repo, "/") IN
    Len(parts) >= 2 /\ parts[1] # <<>> /\ parts[2] # <<>>

\* the invocations of poke --update that run at the same time
Procs == {"p1", "p2"}

\* title and html_url of the issue as the remote reports them
RemoteTitle == <<"T">>

RemoteUrl == <<"U">>

EmptyIssues == <<>>

\* mutant: the file is never read
loadTodoDataForgets(f) == [issues |-> EmptyIssues]

\* loadTodoData, by what the file holds:
\*   "absent", "corrupt", "empty", "partial"
\*                        readTextFile or JSON.parse throws: { issues: {} }
\*   "null", "primitive"  JSON null, or a number, string or boolean: reading
\*                        data.issues of null, or assigning data.issues of a
\*                        primitive in a module (strict code), throws: { issues: {} }
\*   "array", "noIssues", "issuesFalsy"
\*                        an array, an object without issues, or with issues
\*                        null, false, 0 or "": data.issues = {}
\*   "json"               an object whose issues is an object: returned as parsed
\*   "issuesArray"        an object whose issues is an array: returned as
\*                        parsed; the entries of the array are keyed "0", "1", ...
loadTodoData(f) ==
    IF f.kind \in {"json", "issuesArray"} THEN [issues |-> f.issues] ELSE [issues |-> EmptyIssues]

\* mutant: a note replaces the stored notes
ApplyUpdateOverwrite(data, issueKey, st, hasNote, note, t) ==
    LET initialised ==
            IF issueKey \in DOMAIN data.issues THEN data.issues
            ELSE (issueKey :> [status |-> IF st # "" THEN st ELSE "backlog",
                               notes |-> <<>>,
                               lastUpdated |-> toISOString(t),
                               title |-> <<>>, url |-> <<>>]) @@ data.issues
        item0 == initialised[issueKey]
        item1 == IF st # "" THEN [item0 EXCEPT !.status = st] ELSE item0
        today == split(toISOString(t), "T")[1]
        item2 == IF hasNote
                 THEN [item1 EXCEPT !.notes = <<"[">> \o today \o <<"]", " ">> \o note]
                 ELSE item1
        item3 == [item2 EXCEPT !.lastUpdated = toISOString(t)]
    IN  [data EXCEPT !.issues = [initialised EXCEPT ![issueKey] = item3]]

\* mutant: the notes are written from the note argument whether or not one is given
ApplyUpdateClearsNotes(data, issueKey, st, hasNote, note, t) ==
    LET initialised ==
            IF issueKey \in DOMAIN data.issues THEN data.issues
            ELSE (issueKey :> [status |-> IF st # "" THEN st ELSE "backlog",
                               notes |-> <<>>,
                               lastUpdated |-> toISOString(t),
                               title |-> <<>>, url |-> <<>>]) @@ data.issues
        item0 == initialised[issueKey]
        item1 == IF st # "" THEN [item0 EXCEPT !.status = st] ELSE item0
        today == split(toISOString(t), "T")[1]
        existingNotes == item1.notes
        separator == IF Len(existingNotes) > 0 THEN <<"\n\n">> ELSE <<>>
        item2 == IF hasNote
                 THEN [item1 EXCEPT !.notes =
                          existingNotes \o separator \o <<"[">> \o today \o <<"]", " ">> \o note]
                 ELSE [item1 EXCEPT !.notes = <<>>]
        item3 == [item2 EXCEPT !.lastUpdated = toISOString(t)]
    IN  [data EXCEPT !.issues = [initialised EXCEPT ![issueKey] = item3]]

\* mutant: the status is assigned status || "backlog" on every update
ApplyUpdateDefaultsStatus(data, issueKey, st, hasNote, note, t) ==
    LET initialised ==
            IF issueKey \in DOMAIN data.issues THEN data.issues
            ELSE (issueKey :> [status |-> IF st # "" THEN st ELSE "backlog",
                               notes |-> <<>>,
                               lastUpdated |-> toISOString(t),
                               title |-> <<>>, url |-> <<>>]) @@ data.issues
        item0 == initialised[issueKey]
        item1 == [item0 EXCEPT !.status = IF st # "" THEN st ELSE "backlog"]
        today == split(toISOString(t), "T")[1]
        existingNotes == item1.notes
        separator == IF Len(existingNotes) > 0 THEN <<"\n\n">> ELSE <<>>
        item2 == IF hasNote
                 THEN [item1 EXCEPT !.notes =
                          existingNotes \o separator \o <<"[">> \o today \o <<"]", " ">> \o note]
                 ELSE item1
        item3 == [item2 EXCEPT !.lastUpdated = toISOString(t)]
    IN  [data EXCEPT !.issues = [initialised EXCEPT ![issueKey] = item3]]

\* "Initialize if not exists", "Update values if provided", lastUpdated
\* (lines 551-572; the fallback path repeats the same statements at 607-628).
\* An absent title or url is the empty string.
ApplyUpdate(data, issueKey, st, hasNote, note, t) ==
    LET initialised ==
            IF issueKey \in DOMAIN data.issues THEN data.issues
            ELSE (issueKey :> [status |-> IF st # "" THEN st ELSE "backlog",
                               notes |-> <<>>,
                               lastUpdated |-> toISOString(t),
                               title |-> <<>>, url |-> <<>>]) @@ data.issues
        item0 == initialised[issueKey]
        item1 == IF st # "" THEN [item0 EXCEPT !.status = st] ELSE item0
        today == split(toISOString(t), "T")[1]
        existingNotes == item1.notes
        separator == IF Len(existingNotes) > 0 THEN <<"\n\n">> ELSE <<>>
        item2 == IF hasNote
                 THEN [item1 EXCEPT !.notes =
                          existingNotes \o separator \o <<"[">> \o today \o <<"]", " ">> \o note]
                 ELSE item1
        item3 == [item2 EXCEPT !.lastUpdated = toISOString(t)]
    IN  [data EXCEPT !.issues = [initialised EXCEPT ![issueKey] = item3]]

\* if (issueResponse.ok) { title = issueData.title; url = issueData.html_url }
CacheDetails(data, issueKey) ==
    [data EXCEPT !.issues[issueKey].title = RemoteTitle,
                 !.issues[issueKey].url = RemoteUrl]

InitialFiles ==
    { [kind |-> "absent", issues |-> EmptyIssues],
      [kind |-> "corrupt", issues |-> EmptyIssues],
      [kind |-> "json", issues |-> EmptyIssues] }

StartTime == [day |-> 1, tick |-> 1]

UpdInit ==
    /\ file \in InitialFiles
    /\ remotePuts = {}
    /\ updPc = "idle"
    /\ args = NoArgs
    /\ now = StartTime
    /\ runs = 0
    /\ updated = "none"
    /\ issueResponse = "none"
    /\ todoData = [issues |-> EmptyIssues]
    /\ saveResult = "none"
    /\ fileAtStart = file
    /\ noteLog = <<>>

Terminated == updPc \in {"idle", "exit0", "exit1", "listing", "killed"}

\* the synchronous beginning of main: argument parsing (todoMode is false, the
\* invocations carry no --todo) and key validation
StartRun ==
    /\ Terminated
    /\ runs < MaxRuns
    /\ \E a \in ArgSets, d \in {now.day, now.day + 1} :
        /\ args' = a
        /\ now' = [day |-> d, tick |-> now.tick + 1]
        /\ updPc' =
              IF ~isUpdate(a) THEN "listing"
              ELSE IF ~includes(a.issueKey, "#") THEN "exit1"
              ELSE IF parseInt(issueNumberStrOf(a.issueKey)).nan THEN "exit1"
              ELSE IF status(a.rawStatus) # "" THEN "push"
              ELSE "details"
    /\ runs' = runs + 1
    /\ updated' = "none"
    /\ issueResponse' = "none"
    /\ todoData' = [issues |-> EmptyIssues]
    /\ saveResult' = "none"
    /\ fileAtStart' = file
    /\ todoMode' = FALSE
    /\ UNCHANGED <<file, remotePuts, noteLog>>
    /\ UNCHANGED <<listPc, rendered, notified, exitCode>>
    /\ UNCHANGED <<aggVars, prioVars, keyVars, cliVars, raceVars, ntfVars>>

LabelPut ==
    [repo |-> repoOf(args.issueKey),
     issueNumber |-> parseInt(issueNumberStrOf(args.issueKey)).value,
     label |-> status(args.rawStatus)]

\* updateIssueStatus returns false before any request: not owner/repo
UpdateIssueStatusInvalidRepo ==
    /\ updPc = "push"
    /\ ~validRepo(repoOf(args.issueKey))
    /\ updated' = "false"
    /\ updPc' = "details"
    /\ UNCHANGED <<file, remotePuts, args, now, runs, issueResponse, todoData,
                   saveResult, fileAtStart, noteLog>>
    /\ UNCHANGED <<aggVars, prioVars, listVars, keyVars, cliVars, raceVars, ntfVars>>

\* updateIssueStatus returns false: the label read is rejected
UpdateIssueStatusGetRejected ==
    /\ updPc = "push"
    /\ validRepo(repoOf(args.issueKey))
    /\ updated' = "false"
    /\ updPc' = "details"
    /\ UNCHANGED <<file, remotePuts, args, now, runs, issueResponse, todoData,
                   saveResult, fileAtStart, noteLog>>
    /\ UNCHANGED <<aggVars, prioVars, listVars, keyVars, cliVars, raceVars, ntfVars>>

\* updateIssueStatus returns false: the label write is rejected
UpdateIssueStatusPutRejected ==
    /\ updPc = "push"
    /\ validRepo(repoOf(args.issueKey))
    /\ remotePuts' = remotePuts \cup {LabelPut}
    /\ updated' = "false"
    /\ updPc' = "details"
    /\ UNCHANGED <<file, args, now, runs, issueResponse, todoData,
                   saveResult, fileAtStart, noteLog>>
    /\ UNCHANGED <<aggVars, prioVars, listVars, keyVars, cliVars, raceVars, ntfVars>>

\* updateIssueStatus returns true
UpdateIssueStatusOk ==
    /\ updPc = "push"
    /\ validRepo(repoOf(args.issueKey))
    /\ remotePuts' = remotePuts \cup {LabelPut}
    /\ updated' = "true"
    /\ updPc' = "details"
    /\ UNCHANGED <<file, args, now, runs, issueResponse, todoData,
                   saveResult, fileAtStart, noteLog>>
    /\ UNCHANGED <<aggVars, prioVars, listVars, keyVars, cliVars, raceVars, ntfVars>>

\* a fetch of updateIssueStatus rejects (no connection): the call is outside the
\* inner try, the error reaches the catch of main and the process exits with 1
UpdateIssueStatusThrows ==
    /\ updPc = "push"
    /\ validRepo(repoOf(args.issueKey))
    /\ \E putIssued \in BOOLEAN :
          remotePuts' = IF putIssued THEN remotePuts \cup {LabelPut} ELSE remotePuts
    /\ updated' = "threw"
    /\ updPc' = "exit1"
    /\ UNCHANGED <<file, args, now, runs, issueResponse, todoData,
                   saveResult, fileAtStart, noteLog>>
    /\ UNCHANGED <<aggVars, prioVars, listVars, keyVars, cliVars, raceVars, ntfVars>>

\* the issue-details fetch answers (ok or not ok)
FetchDetails ==
    /\ updPc = "details"
    /\ includes(repoOf(args.issueKey), "/")
    /\ \E r \in {"ok", "notok"} : issueResponse' = r
    /\ updPc' = "load"
    /\ UNCHANGED <<file, remotePuts, args, now, runs, updated, todoData,
                   saveResult, fileAtStart, noteLog>>
    /\ UNCHANGED <<aggVars, prioVars, listVars, keyVars, cliVars, raceVars, ntfVars>>

\* throw new Error("Non-standard repository format ..."), or the fetch rejects
FetchDetailsThrows ==
    /\ updPc = "details"
    /\ updPc' = "fb_load"
    /\ UNCHANGED <<file, remotePuts, args, now, runs, updated, issueResponse, todoData,
                   saveResult, fileAtStart, noteLog>>
    /\ UNCHANGED <<aggVars, prioVars, listVars, keyVars, cliVars, raceVars, ntfVars>>

\* mutant: title and url are stored whatever the response was
LoadAndApplyAlwaysCaches ==
    /\ updPc = "load"
    /\ todoData' = CacheDetails(ApplyUpdate(loadTodoData(file), args.issueKey,
                                            status(args.rawStatus), args.hasNote,
                                            args.note, now),
                                args.issueKey)
    /\ updPc' = "save"
    /\ UNCHANGED <<file, remotePuts, args, now, runs, updated, issueResponse,
                   saveResult, fileAtStart, noteLog>>
    /\ UNCHANGED <<aggVars, prioVars, listVars, keyVars, cliVars, raceVars, ntfVars>>

\* lines 548-580: load, apply, and cache the details of an ok response
LoadAndApply ==
    /\ updPc = "load"
    /\ LET applied == ApplyUpdate(loadTodoData(file), args.issueKey, status(args.rawStatus),
                                  args.hasNote, args.note, now)
       IN todoData' = IF issueResponse = "ok"
                      THEN CacheDetails(applied, args.issueKey)
                      ELSE applied
    /\ updPc' = "save"
    /\ UNCHANGED <<file, remotePuts, args, now, runs, updated, issueResponse,
                   saveResult, fileAtStart, noteLog>>
    /\ UNCHANGED <<aggVars, prioVars, listVars, keyVars, cliVars, raceVars, ntfVars>>

\* lines 548-576: issueResponse.json() rejects after the in-memory copy was changed
DetailsJsonThrows ==
    /\ updPc = "load"
    /\ issueResponse = "ok"
    /\ todoData' = ApplyUpdate(loadTodoData(file), args.issueKey, status(args.rawStatus),
                               args.hasNote, args.note, now)
    /\ updPc' = "fb_load"
    /\ UNCHANGED <<file, remotePuts, args, now, runs, updated, issueResponse,
                   saveResult, fileAtStart, noteLog>>
    /\ UNCHANGED <<aggVars, prioVars, listVars, keyVars, cliVars, raceVars, ntfVars>>

\* lines 600-628: the catch block loads again and applies the update
FallbackLoadAndApply ==
    /\ updPc = "fb_load"
    /\ todoData' = ApplyUpdate(loadTodoData(file), args.issueKey, status(args.rawStatus),
                               args.hasNote, args.note, now)
    /\ updPc' = "fb_save"
    /\ UNCHANGED <<file, remotePuts, args, now, runs, updated, issueResponse,
                   saveResult, fileAtStart, noteLog>>
    /\ UNCHANGED <<aggVars, prioVars, listVars, keyVars, cliVars, raceVars, ntfVars>>

LoggedNote ==
    IF args.hasNote
    THEN << [issueKey |-> args.issueKey,
             today |-> split(toISOString(now), "T")[1],
             note |-> args.note] >>
    ELSE <<>>

\* lines 585-594: after the save of the try block, --show / --todo sets todoMode and
\* the else branch prints the tip; the catch block (629-636) does neither
TodoModeAfterSave == IF updPc = "save" /\ show THEN TRUE ELSE todoMode

\* mutant: the save writes the annotation of the updated key only
SaveTodoDataOwnKey ==
    /\ updPc \in {"save", "fb_save"}
    /\ file' = [kind |-> "json",
                issues |-> (args.issueKey :> todoData.issues[args.issueKey])]
    /\ saveResult' = "ok"
    /\ noteLog' = noteLog \o LoggedNote
    /\ todoMode' = TodoModeAfterSave
    /\ updPc' = "exit0"
    /\ UNCHANGED <<remotePuts, args, now, runs, updated, issueResponse, todoData, fileAtStart>>
    /\ UNCHANGED <<listPc, rendered, notified, exitCode>>
    /\ UNCHANGED <<aggVars, prioVars, keyVars, cliVars, raceVars, ntfVars>>

\* saveTodoData writes the whole storage; then todoMode is set when asked for, and
\* Deno.exit(0) ends the process on every branch (lines 582-594, 629-636)
SaveTodoData ==
    /\ updPc \in {"save", "fb_save"}
    /\ file' = [kind |-> "json", issues |-> todoData.issues]
    /\ saveResult' = "ok"
    /\ noteLog' = noteLog \o LoggedNote
    /\ todoMode' = TodoModeAfterSave
    /\ updPc' = "exit0"
    /\ UNCHANGED <<remotePuts, args, now, runs, updated, issueResponse, todoData, fileAtStart>>
    /\ UNCHANGED <<listPc, rendered, notified, exitCode>>
    /\ UNCHANGED <<aggVars, prioVars, keyVars, cliVars, raceVars, ntfVars>>

\* saveTodoData catches a failed mkdir or write; the file keeps its content
SaveTodoDataFails ==
    /\ updPc \in {"save", "fb_save"}
    /\ saveResult' = "failed"
    /\ todoMode' = TodoModeAfterSave
    /\ updPc' = "exit0"
    /\ UNCHANGED <<file, remotePuts, args, now, runs, updated, issueResponse, todoData,
                   fileAtStart, noteLog>>
    /\ UNCHANGED <<listPc, rendered, notified, exitCode>>
    /\ UNCHANGED <<aggVars, prioVars, keyVars, cliVars, raceVars, ntfVars>>

\* the process is stopped inside saveTodoData: Deno.writeTextFile opens todo.json
\* itself with truncation and writes the text into it, so the file is as it was
\* (stopped before the open), empty (after the open), cut short (inside the
\* write) or complete (after the write)
SaveTodoDataCrashes ==
    /\ updPc \in {"save", "fb_save"}
    /\ file' \in { file,
                   [kind |-> "empty", issues |-> EmptyIssues],
                   [kind |-> "partial", issues |-> EmptyIssues],
                   [kind |-> "json", issues |-> todoData.issues] }
    /\ updPc' = "killed"
    /\ UNCHANGED <<remotePuts, args, now, runs, updated, issueResponse, todoData,
                   saveResult, fileAtStart, noteLog>>
    /\ UNCHANGED <<aggVars, prioVars, listVars, keyVars, cliVars, raceVars, ntfVars>>

UpdNext ==
    \/ StartRun
    \/ UpdateIssueStatusInvalidRepo
    \/ UpdateIssueStatusGetRejected
    \/ UpdateIssueStatusPutRejected
    \/ UpdateIssueStatusOk
    \/ UpdateIssueStatusThrows
    \/ FetchDetails
    \/ FetchDetailsThrows
    \/ LoadAndApply
    \/ DetailsJsonThrows
    \/ FallbackLoadAndApply
    \/ SaveTodoData
    \/ SaveTodoDataFails


\* ======================================================================
\* prioritiseNotifications (src/unnamed/part_002 79-124)
\* ======================================================================

\* longest notification list
MaxNotifications == 3

\* Notification records; 1 and 2 differ in their id only
Notifications ==
    { [id |-> "1", reason |-> "mention", type |-> "PullRequest", full_name |-> <<"a", "/", "x">>],
      [id |-> "2", reason |-> "mention", type |-> "PullRequest", full_name |-> <<"a", "/", "x">>],
      [id |-> "3", reason |-> "mention", type |-> "PullRequest", full_name |-> <<"B", "/", "x">>],
      [id |-> "4", reason |-> "mention", type |-> "Issue", full_name |-> <<"a", "/", "x">>],
      [id |-> "5", reason |-> "review_requested", type |-> "Issue", full_name |-> <<"B", "/", "x">>],
      [id |-> "6", reason |-> "security_alert", type |-> "Discussion", full_name |-> <<"a", "b", "/", "x">>],
      [id |-> "7", reason |-> "team_mention", type |-> "Issue", full_name |-> <<"B", "/", "x">>],
      [id |-> "8", reason |-> "assign", type |-> "Issue", full_name |-> <<"B", "/", "x">>],
      [id |-> "9", reason |-> "subscribed", type |-> "PullRequest", full_name |-> <<"B", "/", "x">>],
      [id |-> "10", reason |-> "author", type |-> "Issue", full_name |-> <<"a", "/", "x">>],
      [id |-> "11", reason |-> "comment", type |-> "Issue", full_name |-> <<"a", "/", "x">>],
      [id |-> "12", reason |-> "ci_activity", type |-> "CheckSuite", full_name |-> <<"a", "/", "x">>] }

NotifyOrgConfigs == { <<>>, << <<"a">> >> }

\* String.prototype.startsWith
startsWith(s, prefix) == Len(s) >= Len(prefix) /\ SubSeq(s, 1, Len(prefix)) = prefix

\* WORK_ORGS.some((org) => n.repository.full_name.startsWith(`${org}/`))
isWorkRepo(n, orgs) == \E i \in 1..Len(orgs) : startsWith(n.full_name, orgs[i] \o <<"/">>)

defaultScore == 1

\* reasonScores[reason] || defaultScore
reasonScore(reason) ==
    CASE reason = "review_requested" -> 10
      [] reason = "mention" -> 9
      [] reason = "team_mention" -> 8
      [] reason = "assign" -> 7
      [] reason = "subscribed" -> 5
      [] reason = "author" -> 4
      [] reason = "comment" -> 3
      [] OTHER -> defaultScore

\* mutant: a work boost smaller than the spread of the reason scores
scoreSmallBoost(n, orgs) == reasonScore(n.reason) + (IF isWorkRepo(n, orgs) THEN 5 ELSE 0)

\* mutant: every reason scored as an unknown one
scoreIgnoresReason(n, orgs) == defaultScore + (IF isWorkRepo(n, orgs) THEN 20 ELSE 0)

\* (reasonScores[n.reason] || defaultScore) + workBoost
score(n, orgs) == reasonScore(n.reason) + (IF isWorkRepo(n, orgs) THEN 20 ELSE 0)

\* UTF-16 code units of the characters that occur in repository names here
CodeUnit(c) ==
    CASE c = "/" -> 47
      [] c = "A" -> 65
      [] c = "B" -> 66
      [] c = "X" -> 88
      [] c = "a" -> 97
      [] c = "b" -> 98
      [] c = "r" -> 114
      [] c = "x" -> 120
      [] c = "y" -> 121

\* collation of the same characters (ICU root collation, as Intl.Collator uses for
\* localeCompare): punctuation before letters, letters by alphabet whatever their
\* case (primary weight), and lower case before upper case on a tie (tertiary)
CollationPrimary(c) ==
    CASE c = "/" -> 1
      [] c \in {"a", "A"} -> 2
      [] c \in {"b", "B"} -> 3
      [] c = "r" -> 4
      [] c \in {"x", "X"} -> 5
      [] c = "y" -> 6

CollationTertiary(c) == IF c \in {"A", "B", "X"} THEN 1 ELSE 0

\* comparison of two sequences of numbers from index i on: -1, 0 or 1
RECURSIVE compareWeights(_, _, _)
compareWeights(u, v, i) ==
    IF i > Len(u) /\ i > Len(v) THEN 0
    ELSE IF i > Len(u) THEN 0 - 1
    ELSE IF i > Len(v) THEN 1
    ELSE IF u[i] < v[i] THEN 0 - 1
    ELSE IF u[i] > v[i] THEN 1
    ELSE compareWeights(u, v, i + 1)

\* the order of the strings by code units (plain lexical order)
lexicalCompare(s, t) ==
    compareWeights([i \in 1..Len(s) |-> CodeUnit(s[i])],
                   [i \in 1..Len(t) |-> CodeUnit(t[i])], 1)

\* String.prototype.localeCompare
localeCompare(s, t) ==
    LET primary == compareWeights([i \in 1..Len(s) |-> CollationPrimary(s[i])],
                                  [i \in 1..Len(t) |-> CollationPrimary(t[i])], 1)
    IN  IF primary # 0 THEN primary
        ELSE compareWeights([i \in 1..Len(s) |-> CollationTertiary(s[i])],
                            [i \in 1..Len(t) |-> CollationTertiary(t[i])], 1)

\* mutant: the lower score first
compareAscending(a, b, orgs) ==
    LET scoreA == score(a, orgs)
        scoreB == score(b, orgs)
    IN  IF scoreB # scoreA THEN scoreA - scoreB
        ELSE IF a.type = "PullRequest" /\ b.type # "PullRequest" THEN 0 - 1
        ELSE IF a.type # "PullRequest" /\ b.type = "PullRequest" THEN 1
        ELSE localeCompare(a.full_name, b.full_name)

\* mutant: a comparator that never answers 0, equal items count as out of order
compareNeverEqual(a, b, orgs) ==
    LET scoreA == score(a, orgs)
        scoreB == score(b, orgs)
    IN  IF scoreB # scoreA THEN scoreB - scoreA
        ELSE IF a.type = "PullRequest" /\ b.type # "PullRequest" THEN 0 - 1
        ELSE IF a.type # "PullRequest" /\ b.type = "PullRequest" THEN 1
        ELSE IF localeCompare(a.full_name, b.full_name) = 0 THEN 1
        ELSE localeCompare(a.full_name, b.full_name)

\* the comparator handed to sort (lines 94-123)
compare(a, b, orgs) ==
    LET scoreA == score(a, orgs)
        scoreB == score(b, orgs)
    IN  IF scoreB # scoreA THEN scoreB - scoreA
        ELSE IF a.type = "PullRequest" /\ b.type # "PullRequest" THEN 0 - 1
        ELSE IF a.type # "PullRequest" /\ b.type = "PullRequest" THEN 1
        ELSE localeCompare(a.full_name, b.full_name)

\* Array.prototype.sort is stable: an insertion sort that moves an element to the
\* left only past elements the comparator puts after it
RECURSIVE insertPos(_, _, _, _)
insertPos(s, x, i, orgs) ==
    IF i = 0 \/ compare(s[i], x, orgs) <= 0 THEN i
    ELSE insertPos(s, x, i - 1, orgs)

RECURSIVE sort(_, _)
sort(s, orgs) ==
    IF s = <<>> THEN <<>>
    ELSE LET front == sort(SubSeq(s, 1, Len(s) - 1), orgs)
             x == s[Len(s)]
             i == insertPos(front, x, Len(front), orgs)
         IN  SubSeq(front, 1, i) \o <<x>> \o SubSeq(front, i + 1, Len(front))

\* mutant: notifications.sort(...) without the copy
prioritiseInPlace(ns, orgs) == [argument |-> sort(ns, orgs), result |-> sort(ns, orgs)]

\* return [...notifications].sort(...): the argument as the call leaves it, and
\* the returned list
prioritiseNotifications(ns, orgs) == [argument |-> ns, result |-> sort(ns, orgs)]

PrioInit ==
    /\ prioPc = "input"
    /\ NOTIFY_ORGS \in NotifyOrgConfigs
    /\ given \in SeqsUpTo(Notifications, MaxNotifications)
    /\ notifications = given
    /\ prioritised = <<>>
    /\ again = <<>>

\* const prioritisedNotifications = prioritiseNotifications(notifications)
Prioritise ==
    /\ prioPc = "input"
    /\ LET call == prioritiseNotifications(notifications, NOTIFY_ORGS) IN
        /\ notifications' = call.argument
        /\ prioritised' = call.result
    /\ prioPc' = "sorted"
    /\ UNCHANGED <<NOTIFY_ORGS, given, again>>
    /\ UNCHANGED <<aggVars, updVars, listVars, keyVars, cliVars, raceVars, ntfVars>>

\* prioritiseNotifications applied to its own result
PrioritiseAgain ==
    /\ prioPc = "sorted"
    /\ again' = prioritiseNotifications(prioritised, NOTIFY_ORGS).result
    /\ prioPc' = "twice"
    /\ UNCHANGED <<NOTIFY_ORGS, given, notifications, prioritised>>
    /\ UNCHANGED <<aggVars, updVars, listVars, keyVars, cliVars, raceVars, ntfVars>>

PrioNext ==
    \/ Prioritise
    \/ PrioritiseAgain

\* ======================================================================
\* issue keys: getIssueKey (src/poke.ts 186-188) and the key parsing of the
\* update operation (src/poke.ts 506-513)
\* ======================================================================

\* largest issue number
MaxNumber == 120

\* owner and repository names: letters, digits, "-", "_" and "."
Owners == { <<"a">>, <<"a", "-", "b">>, <<"A", "1">> }

Repos == { <<"r">>, <<"r", ".", "j", "s">>, <<"x", "_", "y", "-", "2">> }

\* mutant: only the last digit of the number is written
numberToStringLastDigit(n) == <<Digits[(n % 10) + 1]>>

\* Number.prototype.toString of a non-negative integer
RECURSIVE numberToString(_)
numberToString(n) ==
    IF n < 10 THEN <<Digits[n + 1]>>
    ELSE numberToString(n \div 10) \o <<Digits[(n % 10) + 1]>>

\* `${item.repository?.full_name}#${item.number}`
getIssueKey(item) == item.full_name \o <<"#">> \o numberToString(item.number)

\* issueKey.includes("#"), split("#"), parseInt, isNaN: the repository and the
\* number the update works on, or a rejection
parseIssueKey(issueKey) ==
    IF ~includes(issueKey, "#") THEN [accepted |-> FALSE, repo |-> <<>>, issueNumber |-> 0]
    ELSE IF parseInt(issueNumberStrOf(issueKey)).nan
         THEN [accepted |-> FALSE, repo |-> <<>>, issueNumber |-> 0]
         ELSE [accepted |-> TRUE, repo |-> repoOf(issueKey),
               issueNumber |-> parseInt(issueNumberStrOf(issueKey)).value]

NoParse == [accepted |-> FALSE, repo |-> <<>>, issueNumber |-> 0]

KeyIdle ==
    /\ keyPc = "off"
    /\ keyItem = [owner |-> <<>>, repo |-> <<>>, number |-> 0]
    /\ formatted = <<>>
    /\ parsed = NoParse

KeyInit ==
    /\ keyPc = "item"
    /\ keyItem \in [owner : Owners, repo : Repos, number : 0..MaxNumber]
    /\ formatted = <<>>
    /\ parsed = NoParse

\* the key of the item as the listing computes it
FormatKey ==
    /\ keyPc = "item"
    /\ formatted' = getIssueKey([full_name |-> keyItem.owner \o <<"/">> \o keyItem.repo,
                                  number |-> keyItem.number])
    /\ keyPc' = "formatted"
    /\ UNCHANGED <<keyItem, parsed>>
    /\ UNCHANGED <<aggVars, updVars, prioVars, listVars, cliVars, raceVars, ntfVars>>

\* the key given to --update
ParseKey ==
    /\ keyPc = "formatted"
    /\ parsed' = parseIssueKey(formatted)
    /\ keyPc' = "parsed"
    /\ UNCHANGED <<keyItem, formatted>>
    /\ UNCHANGED <<aggVars, updVars, prioVars, listVars, cliVars, raceVars, ntfVars>>

KeyNext ==
    \/ FormatKey
    \/ ParseKey

\* ======================================================================
\* the listing run of main: poke [org] [--todo]  (src/poke.ts 644-830)
\* ======================================================================

\* a stored TodoItem
Annotation(st) ==
    [status |-> st, notes |-> <<>>, lastUpdated |-> toISOString(StartTime),
     title |-> <<>>, url |-> <<>>]

\* a key that is in no remote view
ManualKey == <<"b", "/", "q", "#", "3">>

\* the stored mappings of the listing runs; "" is an annotation without a status
StoredIssues1 ==
    (getIssueKey(AssignedIssue) :> Annotation("in-progress"))
        @@ (getIssueKey(AssignedIssue2) :> Annotation("blocked"))

StoredIssues2 ==
    (getIssueKey(AssignedIssue) :> Annotation("review")) @@ (ManualKey :> Annotation("in-progress"))

StoredIssues3 ==
    (getIssueKey(AssignedIssue) :> Annotation("backlog")) @@ (ManualKey :> Annotation(""))

StoredIssues4 ==
    (getIssueKey(AssignedIssue2) :> Annotation("review")) @@ (ManualKey :> Annotation("blocked"))

StoredIssues5 ==
    (getIssueKey(AssignedIssue) :> Annotation("blocked"))
        @@ (getIssueKey(AssignedIssue2) :> Annotation("in-progress"))
        @@ (ManualKey :> Annotation("review"))

\* the storage after poke --update=a/r#01 --status=blocked: the key is stored as typed
StoredIssues6 ==
    (<<"a", "/", "r", "#", "0", "1">> :> Annotation("blocked"))

\* what ~/.poke/todo.json can hold when a listing starts
ListFiles ==
    InitialFiles
    \cup { [kind |-> "json", issues |-> m] :
              m \in {StoredIssues1, StoredIssues2, StoredIssues3, StoredIssues4, StoredIssues5,
                     StoredIssues6} }
    \cup { [kind |-> k, issues |-> EmptyIssues] :
              k \in {"null", "primitive", "array", "noIssues", "issuesFalsy"} }
    \cup { [kind |-> "issuesArray", issues |-> (<<"0">> :> Annotation("blocked"))] }

\* the notification count when no --gui_notifications / -n is given
DefaultNotificationCount == 10

\* Array.prototype.slice(0, n): a negative n counts from the end of the array
slice(s, n) ==
    LET end == IF n < 0 THEN (IF Len(s) + n < 0 THEN 0 ELSE Len(s) + n)
               ELSE IF n > Len(s) THEN Len(s) ELSE n
    IN  SubSeq(s, 1, end)

Section(heading, items, manual) ==
    [heading |-> heading, count |-> Len(items) + Cardinality(manual), items |-> items,
     manual |-> manual]

\* mutant: no stored status is looked up
GroupOfAssignedBacklog(data, item) == "backlog"

\* mutant: stored keys are listed only when they are among the assigned issues
ManualItemsNone(data, assigned, group) == {}

\* todoData?.issues[key]?.status || "backlog", and the branch it takes
GroupOfAssigned(data, item) ==
    LET key == getIssueKey(item)
        st == IF key \in DOMAIN data.issues /\ data.issues[key].status # ""
              THEN data.issues[key].status ELSE "backlog"
    IN  IF st \in {"in-progress", "blocked", "review"} THEN st ELSE "backlog"

\* the keys of manualItems[group]
ManualItems(data, assigned, group) ==
    { key \in DOMAIN data.issues :
        /\ key \notin {getIssueKey(assigned[i]) : i \in 1..Len(assigned)}
        /\ (IF data.issues[key].status # "" THEN data.issues[key].status ELSE "backlog") = group }

DisplayOrder == <<"in-progress", "blocked", "review", "backlog">>

\* the sections the to-do display prints for the groups from position i on
RECURSIVE TodoSections(_, _, _, _)
TodoSections(data, assigned, order, i) ==
    IF i > Len(order) THEN <<>>
    ELSE LET items == SelectSeq(assigned, LAMBDA it : GroupOfAssigned(data, it) = order[i])
             manual == ManualItems(data, assigned, order[i])
         IN  (IF Len(items) > 0 \/ manual # {} THEN <<Section(order[i], items, manual)>> ELSE <<>>)
                \o TodoSections(data, assigned, order, i + 1)

\* the sections of the standard display
StandardSections(v) ==
    (IF Len(v.toReview) > 0 THEN <<Section("toReview", v.toReview, {})>> ELSE <<>>)
    \o (IF Len(v.todo) > 0 THEN <<Section("todo", v.todo, {})>> ELSE <<>>)
    \o (IF Len(v.done) > 0 THEN <<Section("done", slice(v.done, 5), {})>> ELSE <<>>)
    \o (IF Len(v.reviewed) > 0 THEN <<Section("reviewed", slice(v.reviewed, 5), {})>> ELSE <<>>)
    \o (IF Len(v.mentioned) > 0 THEN <<Section("mentioned", v.mentioned, {})>> ELSE <<>>)

\* the items of the desktop notification
NotificationItems(v, count) ==
    LET reviewSlots == (count + 1) \div 2
        first == slice(v.toReview, reviewSlots)
        second == IF Len(first) < count
                  THEN first \o slice(v.todo, count - Len(first)) ELSE first
    IN  IF Len(second) < count
        THEN second \o slice(v.reviewed, count - Len(second)) ELSE second

\* views.todo.length + views.toReview.length + views.done.length + views.reviewed.length
totalItems(v) == Len(v.todo) + Len(v.toReview) + Len(v.done) + Len(v.reviewed)

ListIdle ==
    /\ listPc = "off"
    /\ todoMode = FALSE
    /\ rendered = <<>>
    /\ notified = <<>>
    /\ exitCode = "running"

\* a listing run about to start; the file matters to a --todo run only
ListInit ==
    /\ listPc = "start"
    /\ todoMode \in BOOLEAN
    /\ file \in (IF todoMode THEN ListFiles ELSE {[kind |-> "absent", issues |-> EmptyIssues]})
    /\ rendered = <<>>
    /\ notified = <<>>
    /\ exitCode = "running"

\* if (todoMode) todoData = await loadTodoData(); then fetchAllViews is called
LoadAndCallFetchAllViews ==
    /\ listPc = "start"
    /\ todoData' = IF todoMode THEN loadTodoData(file) ELSE todoData
    /\ aggPc' = "start"
    /\ listPc' = "fetching"
    /\ UNCHANGED <<todoMode, rendered, notified, exitCode>>
    /\ UNCHANGED <<org, WORK_ORGS, WORK_TEAMS, fetched, teamReviews, teamIdx, teamFailed,
                   views, queries>>
    /\ UNCHANGED <<file, remotePuts, updPc, args, now, runs, updated, issueResponse,
                   saveResult, fileAtStart, noteLog>>
    /\ UNCHANGED <<prioVars, keyVars, cliVars, raceVars, ntfVars>>

\* totalItems === 0 && !todoMode
DisplayNoItems ==
    /\ listPc = "fetching"
    /\ aggPc = "done"
    /\ ~todoMode
    /\ totalItems(views) = 0
    /\ rendered' = <<Section("No items found", <<>>, {})>>
    /\ listPc' = "end"
    /\ exitCode' = "0"
    /\ UNCHANGED <<todoMode, notified>>
    /\ UNCHANGED <<aggVars, updVars, prioVars, keyVars, cliVars, raceVars, ntfVars>>

\* to-do mode with no assigned issue and no stored item: Deno.exit(0)
DisplayNoTodoItems ==
    /\ listPc = "fetching"
    /\ aggPc = "done"
    /\ todoMode
    /\ Len(views.todo) = 0
    /\ DOMAIN todoData.issues = {}
    /\ rendered' = <<Section("No to-do items found.", <<>>, {})>>
    /\ listPc' = "end"
    /\ exitCode' = "0"
    /\ UNCHANGED <<todoMode, notified>>
    /\ UNCHANGED <<aggVars, updVars, prioVars, keyVars, cliVars, raceVars, ntfVars>>

\* the to-do display
DisplayTodo ==
    /\ listPc = "fetching"
    /\ aggPc = "done"
    /\ todoMode
    /\ Len(views.todo) > 0 \/ DOMAIN todoData.issues # {}
    /\ rendered' = TodoSections(todoData, views.todo, DisplayOrder, 1)
    /\ listPc' = "end"
    /\ exitCode' = "0"
    /\ UNCHANGED <<todoMode, notified>>
    /\ UNCHANGED <<aggVars, updVars, prioVars, keyVars, cliVars, raceVars, ntfVars>>

\* the standard display and the desktop notification
DisplayStandard ==
    /\ listPc = "fetching"
    /\ aggPc = "done"
    /\ ~todoMode
    /\ totalItems(views) # 0
    /\ rendered' = StandardSections(views)
    /\ notified' = NotificationItems(views, DefaultNotificationCount)
    /\ listPc' = "end"
    /\ exitCode' = "0"
    /\ UNCHANGED todoMode
    /\ UNCHANGED <<aggVars, updVars, prioVars, keyVars, cliVars, raceVars, ntfVars>>

\* catch (error) { console.error("Error:", ...); Deno.exit(1); }
TopLevelCatch ==
    /\ listPc = "fetching"
    /\ aggPc = "failed"
    /\ listPc' = "end"
    /\ exitCode' = "1"
    /\ UNCHANGED <<todoMode, rendered, notified>>
    /\ UNCHANGED <<aggVars, updVars, prioVars, keyVars, cliVars, raceVars, ntfVars>>

ListNext ==
    \/ LoadAndCallFetchAllViews
    \/ NoOrganization
    \/ RequiredQueriesOk
    \/ RequiredQueriesFail
    \/ TeamQueryOk
    \/ TeamQueryFail
    \/ MergeAndReturn
    \/ DisplayNoItems
    \/ DisplayNoTodoItems
    \/ DisplayTodo
    \/ DisplayStandard
    \/ TopLevelCatch

\* ======================================================================
\* specifications: one per program part, the other parts at rest
\* ======================================================================

AggIdle ==
    /\ aggPc = "idle"
    /\ org = <<>>
    /\ WORK_ORGS = <<>>
    /\ WORK_TEAMS = <<>>
    /\ fetched = NoFetched
    /\ teamReviews = <<>>
    /\ teamIdx = 1
    /\ teamFailed = {}
    /\ views = NoViews
    /\ queries = <<>>

UpdIdle ==
    /\ file = [kind |-> "absent", issues |-> EmptyIssues]
    /\ remotePuts = {}
    /\ updPc = "off"
    /\ args = NoArgs
    /\ now = StartTime
    /\ runs = 0
    /\ updated = "none"
    /\ issueResponse = "none"
    /\ todoData = [issues |-> EmptyIssues]
    /\ saveResult = "none"
    /\ fileAtStart = file
    /\ noteLog = <<>>

PrioIdle ==
    /\ prioPc = "idle"
    /\ NOTIFY_ORGS = <<>>
    /\ given = <<>>
    /\ notifications = <<>>
    /\ prioritised = <<>>
    /\ again = <<>>

\* ----------------------------------------------------------------------
\* two invocations of poke --update at the same time (src/poke.ts 548-583,
\* 600-628 over loadTodoData and saveTodoData): each reads the whole file,
\* changes its copy and writes the whole file, and nothing locks the file
\* ----------------------------------------------------------------------

\* the updates of the concurrent invocations: accepted keys, each with a note
RaceArgSets ==
    { a \in ArgSets :
        /\ isUpdate(a)
        /\ a.hasNote /\ a.note # <<>>
        /\ a.rawStatus \in {"", "blocked"}
        /\ includes(a.issueKey, "#")
        /\ ~parseInt(issueNumberStrOf(a.issueKey)).nan }

RaceInit ==
    /\ racePc = [p \in Procs |-> "load"]
    /\ raceArgs \in [Procs -> RaceArgSets]
    /\ raceData = [p \in Procs |-> [issues |-> EmptyIssues]]
    /\ raceOrder = <<>>

\* invocation p loads the file and applies its update to the copy (548-580 with
\* the details cached or not, or 600-627)
RaceLoadAndApply(p) ==
    /\ racePc[p] = "load"
    /\ LET a == raceArgs[p]
           applied == ApplyUpdate(loadTodoData(file), a.issueKey, status(a.rawStatus),
                                  a.hasNote, a.note, now)
       IN \E ok \in (IF includes(repoOf(a.issueKey), "/") THEN BOOLEAN ELSE {FALSE}) :
             raceData' = [raceData EXCEPT
                            ![p] = IF ok THEN CacheDetails(applied, a.issueKey) ELSE applied]
    /\ racePc' = [racePc EXCEPT ![p] = "save"]
    /\ raceOrder' = Append(raceOrder, <<p, "load">>)
    /\ UNCHANGED <<raceArgs, updVars>>
    /\ UNCHANGED <<aggVars, prioVars, listVars, keyVars, cliVars, ntfVars>>

\* invocation p writes its whole copy to the file and exits
RaceSaveTodoData(p) ==
    /\ racePc[p] = "save"
    /\ file' = [kind |-> "json", issues |-> raceData[p].issues]
    /\ racePc' = [racePc EXCEPT ![p] = "done"]
    /\ raceOrder' = Append(raceOrder, <<p, "save">>)
    /\ UNCHANGED <<raceArgs, raceData>>
    /\ UNCHANGED <<remotePuts, updPc, args, now, runs, updated, issueResponse, todoData,
                   saveResult, fileAtStart, noteLog>>
    /\ UNCHANGED <<aggVars, prioVars, listVars, keyVars, cliVars, ntfVars>>

RaceNext ==
    \E p \in Procs :
        \/ RaceLoadAndApply(p)
        \/ RaceSaveTodoData(p)

\* ----------------------------------------------------------------------
\* the notification count and the items of the desktop notification
\* (src/poke.ts 481-482, 786-807)
\* ----------------------------------------------------------------------

\* largest magnitude of a count given on the command line
MaxCount == 3

\* the decimal text of an integer, as typed after -n=
countText(n) == IF n < 0 THEN <<"-">> \o numberToString(0 - n) ELSE numberToString(n)

\* the argument found by Deno.args.find; <<>> when neither flag is given
NotificationCountArgs ==
    { <<>>, <<"-n", "=">>, <<"-n", "=", "x">> }
    \cup { <<"-n", "=">> \o countText(n) : n \in (0 - MaxCount)..MaxCount }
    \cup { <<"--gui_notifications", "=">> \o countText(n) : n \in 0..MaxCount }

\* the i-th item of a view: the views share no item
ViewItem(base, i) == [id |-> base + i, number |-> i, full_name |-> <<"a", "/", "r">>]

ViewItems(base, len) == [i \in 1..len |-> ViewItem(base, i)]

\* views of every combination of lengths of toReview, todo and reviewed
NotificationViews ==
    { [todo |-> ViewItems(20, a), done |-> <<>>, toReview |-> ViewItems(10, r),
       reviewed |-> ViewItems(30, w), mentioned |-> <<>>] :
        r \in 0..MaxLen, a \in 0..MaxLen, w \in 0..MaxLen }

NtfInit ==
    /\ ntfPc = "args"
    /\ notificationCountArg \in NotificationCountArgs
    /\ notificationCount = [nan |-> FALSE, value |-> DefaultNotificationCount]
    /\ ntfViews \in NotificationViews
    /\ notificationItems = <<>>

\* notificationCountArg ? parseInt(notificationCountArg.split("=")[1], 10) : 10
ParseNotificationCount ==
    /\ ntfPc = "args"
    /\ notificationCount' =
          IF notificationCountArg = <<>>
          THEN [nan |-> FALSE, value |-> DefaultNotificationCount]
          ELSE parseInt(split(notificationCountArg, "=")[2])
    /\ ntfPc' = "parsed"
    /\ UNCHANGED <<notificationCountArg, ntfViews, notificationItems>>
    /\ UNCHANGED <<aggVars, updVars, prioVars, listVars, keyVars, cliVars, raceVars>>

\* lines 786-807; with a NaN count every slice is empty and no comparison holds
PrepareNotification ==
    /\ ntfPc = "parsed"
    /\ notificationItems' =
          IF notificationCount.nan THEN <<>>
          ELSE NotificationItems(ntfViews, notificationCount.value)
    /\ ntfPc' = "prepared"
    /\ UNCHANGED <<notificationCountArg, notificationCount, ntfViews>>
    /\ UNCHANGED <<aggVars, updVars, prioVars, listVars, keyVars, cliVars, raceVars>>

NtfNext ==
    \/ ParseNotificationCount
    \/ PrepareNotification

CliIdle == show = FALSE

RaceIdle ==
    /\ racePc = [p \in Procs |-> "off"]
    /\ raceArgs = [p \in Procs |-> NoArgs]
    /\ raceData = [p \in Procs |-> [issues |-> EmptyIssues]]
    /\ raceOrder = <<>>

NtfIdle ==
    /\ ntfPc = "off"
    /\ notificationCountArg = <<>>
    /\ notificationCount = [nan |-> FALSE, value |-> DefaultNotificationCount]
    /\ ntfViews = NoViews
    /\ notificationItems = <<>>

RestIdle == CliIdle /\ RaceIdle /\ NtfIdle

AggNext ==
    \/ NoOrganization
    \/ RequiredQueriesOk
    \/ RequiredQueriesFail
    \/ TeamQueryOk
    \/ TeamQueryFail
    \/ MergeAndReturn

InitAgg == AggInit /\ UpdIdle /\ PrioIdle /\ ListIdle /\ KeyIdle /\ RestIdle

SpecAgg == InitAgg /\ [][AggNext]_vars

InitUpdate == UpdInit /\ AggIdle /\ PrioIdle /\ ListIdle /\ KeyIdle /\ RestIdle

SpecUpdate == InitUpdate /\ [][UpdNext]_vars

\* update invocations that all carry --show, or all do not
InitShow ==
    /\ UpdInit /\ AggIdle /\ PrioIdle /\ ListIdle /\ KeyIdle
    /\ show \in BOOLEAN
    /\ RaceIdle /\ NtfIdle

SpecShow == InitShow /\ [][UpdNext]_vars

\* two update invocations started on the same file, no other run under way
InitRace ==
    /\ RaceInit
    /\ file \in InitialFiles
    /\ remotePuts = {}
    /\ updPc = "off"
    /\ args = NoArgs
    /\ now = StartTime
    /\ runs = 0
    /\ updated = "none"
    /\ issueResponse = "none"
    /\ todoData = [issues |-> EmptyIssues]
    /\ saveResult = "none"
    /\ fileAtStart = file
    /\ noteLog = <<>>
    /\ AggIdle /\ PrioIdle /\ ListIdle /\ KeyIdle /\ CliIdle /\ NtfIdle

SpecRace == InitRace /\ [][RaceNext]_vars

\* update invocations that can be stopped while they write the file
CrashNext ==
    \/ UpdNext
    \/ SaveTodoDataCrashes

SpecCrash == InitUpdate /\ [][CrashNext]_vars

InitPrio == PrioInit /\ AggIdle /\ UpdIdle /\ ListIdle /\ KeyIdle /\ RestIdle

SpecPrio == InitPrio /\ [][PrioNext]_vars

\* a listing run: the configuration and argument of fetchAllViews as in AggInit,
\* fetchAllViews not yet called, no update under way
InitList ==
    /\ ListInit
    /\ aggPc = "idle"
    /\ org \in OrgArgs
    /\ WORK_ORGS \in OrgConfigs
    /\ WORK_TEAMS \in TeamConfigs
    /\ fetched = NoFetched
    /\ teamReviews = <<>>
    /\ teamIdx = 1
    /\ teamFailed = {}
    /\ views = NoViews
    /\ queries = <<>>
    /\ remotePuts = {}
    /\ updPc = "off"
    /\ args = NoArgs
    /\ now = StartTime
    /\ runs = 0
    /\ updated = "none"
    /\ issueResponse = "none"
    /\ todoData = [issues |-> EmptyIssues]
    /\ saveResult = "none"
    /\ fileAtStart = file
    /\ noteLog = <<>>
    /\ PrioIdle
    /\ KeyIdle
    /\ RestIdle

SpecList == InitList /\ [][ListNext]_vars

InitKey == KeyInit /\ AggIdle /\ UpdIdle /\ PrioIdle /\ ListIdle /\ RestIdle

SpecKey == InitKey /\ [][KeyNext]_vars

InitNotify ==
    /\ NtfInit
    /\ AggIdle /\ UpdIdle /\ PrioIdle /\ ListIdle /\ KeyIdle /\ CliIdle /\ RaceIdle

SpecNotify == InitNotify /\ [][NtfNext]_vars

\* ======================================================================
\* properties
\* ======================================================================

idsOf(s) == {s[i].id : i \in 1..Len(s)}

NoDuplicateIds(s) == \A i, j \in 1..Len(s) : i # j => s[i].id # s[j].id

\* the first position of an id in a list
firstIndex(s, id) == CHOOSE i \in 1..Len(s) : s[i].id = id /\ \A j \in 1..(i - 1) : s[j].id # id

IsPrefix(s, t) == Len(s) <= Len(t) /\ SubSeq(t, 1, Len(s)) = s

Contains(t, sub) == \E i \in 0..(Len(t) - Len(sub)) : SubSeq(t, i + 1, i + Len(sub)) = sub

Count(s, x) == Cardinality({i \in 1..Len(s) : s[i] = x})

\* C1: whatever the personal and team result lists are, the to-review list that
\* fetchAllViews returns holds no two items with the same id.
C1_ToReviewHasNoDuplicateIds ==
    aggPc = "done" => NoDuplicateIds(views.toReview)

\* C2: the merged list is no longer than personal plus team; it starts with the
\* personal items in their input order, so they come before every team item
\* that was not in personal; the team items that follow are in the order in
\* which they were first seen in the team results.
C2_MergeKeepsFirstSeenOrder ==
    aggPc = "done" =>
        LET personal == fetched.personalReviews
            out == views.toReview
            kept == SubSeq(out, Len(personal) + 1, Len(out))
        IN  /\ Len(out) <= Len(personal) + Len(teamReviews)
            /\ IsPrefix(personal, out)
            /\ Range(kept) \subseteq Range(teamReviews)
            /\ \A i \in 1..Len(kept) : kept[i].id \notin idsOf(personal)
            /\ \A i, j \in 1..Len(kept) :
                  i < j => firstIndex(teamReviews, kept[i].id)
                              < firstIndex(teamReviews, kept[j].id)

C2_Witness ==
    /\ aggPc = "done"
    /\ Len(fetched.personalReviews) > 0
    /\ Len(views.toReview) > Len(fetched.personalReviews)
    /\ Len(views.toReview) < Len(fetched.personalReviews) + Len(teamReviews)

\* C3: the merge identifies items by id alone: every id of personal or team is in
\* the merged list, and two items with different ids are both in it even when
\* they share the number, or the repository and the number.
C3_MergeIsById ==
    aggPc = "done" =>
        LET all == fetched.personalReviews \o teamReviews
            out == views.toReview
        IN  /\ idsOf(all) \subseteq idsOf(out)
            /\ \A x, y \in Range(all) :
                  (x.id # y.id /\ x.number = y.number) =>
                      \E i, j \in 1..Len(out) : i # j /\ out[i] = x /\ out[j] = y

C3_Witness ==
    /\ aggPc = "done"
    /\ \E x \in Range(fetched.personalReviews), y \in Range(teamReviews) :
          x.id # y.id /\ x.number = y.number /\ x.full_name = y.full_name
    /\ \E x \in Range(fetched.personalReviews), y \in Range(teamReviews) :
          x.id # y.id /\ x.number = y.number /\ x.full_name # y.full_name

StoredIssues(f) == IF f.kind = "json" THEN f.issues ELSE EmptyIssues

Stamp(entry) == <<"[">> \o entry.today \o <<"]", " ">> \o entry.note

\* C4: notes only grow: the notes of every key that was stored when an update
\* began are a prefix of the notes stored for it at every later point of that
\* update, and the stored notes of a key contain the body and date stamp of
\* every note update that was saved for it.
C4_NotesAppendOnly ==
    /\ \A k \in DOMAIN StoredIssues(fileAtStart) :
          /\ k \in DOMAIN StoredIssues(file)
          /\ IsPrefix(StoredIssues(fileAtStart)[k].notes, StoredIssues(file)[k].notes)
    /\ \A i \in 1..Len(noteLog) :
          /\ noteLog[i].issueKey \in DOMAIN StoredIssues(file)
          /\ Contains(StoredIssues(file)[noteLog[i].issueKey].notes, Stamp(noteLog[i]))

C4_Witness ==
    /\ updPc = "exit0"
    /\ Len(noteLog) = 2
    /\ noteLog[1].issueKey = noteLog[2].issueKey
    /\ noteLog[1].note # noteLog[2].note
    /\ noteLog[1].today # noteLog[2].today
    /\ StoredIssues(file)[noteLog[1].issueKey].notes
          = Stamp(noteLog[1]) \o <<"\n\n">> \o Stamp(noteLog[2])

StatusOnly == isUpdate(args) /\ status(args.rawStatus) # "" /\ ~args.hasNote

NoteOnly == isUpdate(args) /\ status(args.rawStatus) = "" /\ args.hasNote

ExistedAtStart == args.issueKey \in DOMAIN StoredIssues(fileAtStart)

\* what saveTodoData did to the file
Persisted ==
    /\ saveResult = "ok" => file = [kind |-> "json", issues |-> todoData.issues]
    /\ saveResult = "failed" => file = fileAtStart

\* the other keys of the in-memory storage are as they were in the file
OtherKeysUntouched ==
    /\ DOMAIN todoData.issues = DOMAIN StoredIssues(fileAtStart) \cup {args.issueKey}
    /\ \A k \in DOMAIN StoredIssues(fileAtStart) :
          k # args.issueKey => todoData.issues[k] = StoredIssues(fileAtStart)[k]

\* C5 as claimed: a status-only update of an existing annotation changes only
\* its status and lastUpdated.
C5_StatusOnlyChangesOnlyStatusAndLastUpdated ==
    (updPc = "exit0" /\ StatusOnly /\ ExistedAtStart) =>
        todoData.issues[args.issueKey] =
            [StoredIssues(fileAtStart)[args.issueKey] EXCEPT
                !.status = status(args.rawStatus),
                !.lastUpdated = toISOString(now)]

\* C5 as amended: a status-only update of an existing annotation leaves its notes
\* exactly as they were and every other key untouched; of its own key it sets
\* status and lastUpdated, and title and url only from an ok details response.
C5_StatusOnlyLeavesNotes ==
    (updPc = "exit0" /\ StatusOnly /\ ExistedAtStart) =>
        LET old == StoredIssues(fileAtStart)[args.issueKey]
            new == todoData.issues[args.issueKey]
        IN  /\ new.notes = old.notes
            /\ new.status = status(args.rawStatus)
            /\ new.lastUpdated = toISOString(now)
            /\ \/ new.title = old.title /\ new.url = old.url
               \/ issueResponse = "ok" /\ new.title = RemoteTitle /\ new.url = RemoteUrl
            /\ OtherKeysUntouched
            /\ Persisted

C5_Witness ==
    /\ updPc = "exit0"
    /\ StatusOnly
    /\ ExistedAtStart
    /\ saveResult = "ok"
    /\ StoredIssues(fileAtStart)[args.issueKey].notes # <<>>
    /\ StoredIssues(fileAtStart)[args.issueKey].status # status(args.rawStatus)
    /\ file.issues[args.issueKey].title # StoredIssues(fileAtStart)[args.issueKey].title

\* C6: a note-only update creates a missing annotation with status backlog and
\* leaves the status of an existing annotation as it was, in the storage handed
\* to saveTodoData and in the file once saved.
C6_NoteOnlyStatus ==
    (updPc = "exit0" /\ NoteOnly) =>
        /\ todoData.issues[args.issueKey].status =
              IF ExistedAtStart
              THEN StoredIssues(fileAtStart)[args.issueKey].status
              ELSE "backlog"
        /\ Persisted

C6_Witness ==
    /\ updPc = "exit0"
    /\ NoteOnly
    /\ ExistedAtStart
    /\ saveResult = "ok"
    /\ file.issues[args.issueKey].status = "in-progress"
    /\ file.issues[args.issueKey].notes # StoredIssues(fileAtStart)[args.issueKey].notes

\* C7: whenever the remote status write did not succeed (it returned false or
\* failed with a transport error), the invocation still ends having applied the
\* status and note to the local annotation and handed it to saveTodoData.
C7_LocalUpdateSurvivesRemoteFailure ==
    (updPc \in {"exit0", "exit1"} /\ updated \in {"false", "threw"}) =>
        /\ saveResult # "none"
        /\ args.issueKey \in DOMAIN todoData.issues
        /\ todoData.issues[args.issueKey].status = status(args.rawStatus)
        /\ Persisted

\* the same for the outcomes in which updateIssueStatus returns false
C7_LocalUpdateSurvivesReturnedFalse ==
    (updPc \in {"exit0", "exit1"} /\ updated = "false") =>
        /\ saveResult # "none"
        /\ args.issueKey \in DOMAIN todoData.issues
        /\ todoData.issues[args.issueKey].status = status(args.rawStatus)
        /\ Persisted

\* C8: prioritising a prioritised list changes nothing.
C8_PrioritiseIdempotent ==
    prioPc = "twice" => again = prioritised

C8_Witness ==
    /\ prioPc = "twice"
    /\ Len(given) >= 3
    /\ prioritised # given
    /\ \E i, j \in 1..Len(given) : i # j /\ given[i].type # "PullRequest"
                                    /\ given[j].type # "PullRequest"

OrderedBy(out, orgs, nameCompare(_, _)) ==
    \A i, j \in 1..Len(out) :
        i < j =>
            LET a == out[i]
                b == out[j]
            IN  /\ score(a, orgs) >= score(b, orgs)
                /\ score(a, orgs) = score(b, orgs) =>
                      ~(a.type # "PullRequest" /\ b.type = "PullRequest")
                /\ (score(a, orgs) = score(b, orgs) /\ a.type = b.type) =>
                      nameCompare(a.full_name, b.full_name) <= 0

\* C9 as claimed: in the output the scores descend, on equal scores no pull
\* request follows another kind, and on equal score and kind the repository
\* names ascend in lexical (code unit) order.
C9_OrderedWithLexicalNames ==
    prioPc \in {"sorted", "twice"} => OrderedBy(prioritised, NOTIFY_ORGS, lexicalCompare)

\* C9 as amended: the same, with the repository names ascending in the order of
\* localeCompare (letters by alphabet before case, so a/x precedes B/x).
C9_OrderedWithLocaleNames ==
    prioPc \in {"sorted", "twice"} => OrderedBy(prioritised, NOTIFY_ORGS, localeCompare)

C9_Witness ==
    /\ prioPc = "sorted"
    /\ \E i, j \in 1..Len(given) :
          /\ i < j
          /\ given[i].full_name = <<"B", "/", "x">>
          /\ given[j].full_name = <<"a", "/", "x">>
          /\ given[i].type = given[j].type
          /\ score(given[i], NOTIFY_ORGS) = score(given[j], NOTIFY_ORGS)
    /\ \E i, j \in 1..Len(given) :
          i < j /\ score(given[i], NOTIFY_ORGS) < score(given[j], NOTIFY_ORGS)
    /\ prioritised # given

SameSortKeys(x, y, orgs) ==
    score(x, orgs) = score(y, orgs) /\ x.type = y.type /\ x.full_name = y.full_name

Restrict(s, S) == LET keep(e) == e \in S IN SelectSeq(s, keep)

\* C10: the output is a permutation of the input, the input list is left as it
\* was, and items equal on score, kind and repository name keep their input order.
C10_PermutationAndStable ==
    prioPc \in {"sorted", "twice"} =>
        /\ notifications = given
        /\ Len(prioritised) = Len(given)
        /\ \A x \in Range(given) \cup Range(prioritised) :
              Count(prioritised, x) = Count(given, x)
        /\ \A x, y \in Range(given) :
              (x # y /\ SameSortKeys(x, y, NOTIFY_ORGS)) =>
                  Restrict(prioritised, {x, y}) = Restrict(given, {x, y})

C10_Witness ==
    /\ prioPc = "sorted"
    /\ prioritised # given
    /\ \E i, j \in 1..Len(given) : i < j /\ given[i].id = "2" /\ given[j].id = "1"
    /\ \E i, j \in 1..Len(prioritised) :
          i < j /\ prioritised[i].id = "2" /\ prioritised[j].id = "1"

\* the weight the reason table gives a reason; review-requested is the reason
\* GitHub names review_requested
reasonWeight(reason) ==
    CASE reason = "review_requested" -> 10
      [] reason = "mention" -> 9
      [] reason = "team_mention" -> 8
      [] reason = "assign" -> 7
      [] reason = "subscribed" -> 5
      [] reason = "author" -> 4
      [] reason = "comment" -> 3
      [] OTHER -> 1

\* the score of every prioritised item is its reason weight plus boost when it
\* is of a work organization, and the output is in descending order of it
ScoredWithBoost(boost) ==
    prioPc = "sorted" =>
        /\ \A i \in 1..Len(prioritised) :
              score(prioritised[i], NOTIFY_ORGS) =
                  reasonWeight(prioritised[i].reason)
                    + (IF isWorkRepo(prioritised[i], NOTIFY_ORGS) THEN boost ELSE 0)
        /\ \A i, j \in 1..Len(prioritised) :
              i < j => score(prioritised[i], NOTIFY_ORGS) >= score(prioritised[j], NOTIFY_ORGS)

\* C11 as stated: the score is the reason weight plus 30 for an item of a work
\* organization, so a mention of a work organization scores 39.
C11_ScoreBoost30 == ScoredWithBoost(30)

\* C11: the score is the reason weight (review_requested 10, mention 9,
\* team_mention 8, assign 7, subscribed 5, author 4, comment 3, others 1) plus
\* 20 for an item of a work organization and plus 0 otherwise, and the output
\* is in descending order of the score.
C11_ScoreBoost20 == ScoredWithBoost(20)

\* a mention of a work organization (29) has been put before a review request
\* of another organization (10) that was given first
C11_Witness ==
    /\ prioPc = "sorted"
    /\ Len(given) = 2
    /\ given[1].reason = "review_requested" /\ ~isWorkRepo(given[1], NOTIFY_ORGS)
    /\ given[2].reason = "mention" /\ isWorkRepo(given[2], NOTIFY_ORGS)
    /\ prioritised = <<given[2], given[1]>>
    /\ score(given[2], NOTIFY_ORGS) = 29

\* C12: in the prioritised output no item of a work organization comes after
\* an item that is not of a work organization, whatever their reasons and kinds.
C12_WorkItemsFirst ==
    prioPc = "sorted" =>
        \A i, j \in 1..Len(prioritised) :
            (isWorkRepo(prioritised[j], NOTIFY_ORGS) /\ ~isWorkRepo(prioritised[i], NOTIFY_ORGS))
                => j < i

\* a work item of an unknown reason that is not a pull request was given after
\* a review request of another organization
C12_Witness ==
    /\ prioPc = "sorted"
    /\ \E i, j \in 1..Len(given) :
          /\ i < j
          /\ given[i].reason = "review_requested" /\ ~isWorkRepo(given[i], NOTIFY_ORGS)
          /\ reasonScore(given[j].reason) = defaultScore
          /\ given[j].type # "PullRequest"
          /\ isWorkRepo(given[j], NOTIFY_ORGS)

\* C13 as stated: whenever the file is absent, unreadable, not JSON, or JSON that
\* is not an object with an issues object, the storage loadTodoData returns has
\* an empty issues mapping.
C13_LoadGivesEmptyMapping ==
    (listPc # "start" /\ todoMode /\ file.kind # "json") => todoData.issues = EmptyIssues

\* the part of C13 that holds: every file but one whose issues is a non-empty
\* value of the wrong shape loads as an empty mapping
C13_LoadOfUnusableFileIsEmpty ==
    (listPc # "start" /\ todoMode /\ file.kind \notin {"json", "issuesArray"})
        => todoData.issues = EmptyIssues

\* a to-do listing was printed
TodoListed ==
    /\ listPc = "end"
    /\ todoMode
    /\ exitCode = "0"
    /\ Len(views.todo) > 0 \/ DOMAIN todoData.issues # {}

AssignedKeys == {getIssueKey(views.todo[i]) : i \in 1..Len(views.todo)}

\* the status of a stored annotation, backlog when it has none
StoredStatus(key) ==
    IF todoData.issues[key].status # "" THEN todoData.issues[key].status ELSE "backlog"

\* C14: in a to-do listing every stored key that is not the key of an item of
\* the assigned view is a manually tracked entry of exactly one section, the
\* section of its stored status (backlog when it has none), whatever the
\* storage and whichever team queries failed.
C14_StoredKeysAreListed ==
    TodoListed =>
        \A key \in DOMAIN todoData.issues \ AssignedKeys :
            /\ \E k \in 1..Len(rendered) :
                  key \in rendered[k].manual /\ rendered[k].heading = StoredStatus(key)
            /\ \A k \in 1..Len(rendered) :
                  key \in rendered[k].manual => rendered[k].heading = StoredStatus(key)

\* a stored key was listed although an assigned issue is listed too and a team
\* query failed
C14_Witness ==
    /\ TodoListed
    /\ Len(views.todo) > 0
    /\ teamFailed # {}
    /\ \E k \in 1..Len(rendered) : ManualKey \in rendered[k].manual

\* the position of a group in the display
GroupRank(heading) ==
    CASE heading = "in-progress" -> 1
      [] heading = "blocked" -> 2
      [] heading = "review" -> 3
      [] heading = "backlog" -> 4
      [] OTHER -> 5

\* C15: in a to-do listing every item of the assigned view is in the section of
\* its effective status and in no other: the stored status of its key when the
\* storage has the key, backlog otherwise; the sections are printed in the
\* order in-progress, blocked, review, backlog.
C15_AssignedGroupedByEffectiveStatus ==
    TodoListed =>
        /\ \A i \in 1..Len(views.todo) :
              LET item == views.todo[i]
                  key == getIssueKey(item)
                  effective == IF key \in DOMAIN todoData.issues THEN StoredStatus(key)
                               ELSE "backlog"
              IN  \A k \in 1..Len(rendered) :
                      (item \in Range(rendered[k].items)) <=> (rendered[k].heading = effective)
        /\ \A j, k \in 1..Len(rendered) :
              j < k => GroupRank(rendered[j].heading) < GroupRank(rendered[k].heading)

\* the issue given second was printed before the issue given first, one with
\* a stored status and one without
C15_Witness ==
    /\ TodoListed
    /\ Len(views.todo) = 2
    /\ \E j, k \in 1..Len(rendered) :
          /\ j < k
          /\ views.todo[2] \in Range(rendered[j].items)
          /\ views.todo[1] \in Range(rendered[k].items)
    /\ \E i \in 1..2 : getIssueKey(views.todo[i]) \notin DOMAIN todoData.issues

\* C18: with no organisation argument and no configured work organisation no
\* search is ever issued and no views are returned or displayed; the run can
\* only go on to the top-level catch and ends with exit code 1.
C18_NoOrganizationFailsBeforeAnyQuery ==
    (org = <<>> /\ WORK_ORGS = <<>>) =>
        /\ queries = <<>>
        /\ views = NoViews
        /\ rendered = <<>>
        /\ aggPc \in {"idle", "start", "failed"}
        /\ aggPc = "failed" /\ listPc = "fetching" => ENABLED TopLevelCatch
        /\ listPc = "end" => exitCode = "1"

C18_Witness ==
    /\ org = <<>>
    /\ WORK_ORGS = <<>>
    /\ WORK_TEAMS # <<>>
    /\ listPc = "end"
    /\ exitCode = "1"

\* the entries of the per-team searches in the history
TeamQueries == SubSeq(queries, Len(RequiredQueries) + 1, Len(queries))

\* C19: whichever per-team searches fail, fetchAllViews does not fail for it:
\* the search of every configured team is issued, in order, and the to-review
\* list returned has every personal review item and every item of a team whose
\* search succeeded.
C19_TeamFailuresAreSkipped ==
    /\ aggPc = "failed" => teamFailed = {} /\ TeamQueries = <<>>
    /\ aggPc = "done" =>
          /\ Len(TeamQueries) = Len(WORK_TEAMS)
          /\ \A t \in 1..Len(WORK_TEAMS) :
                /\ TeamQueries[t].name = WORK_TEAMS[t]
                /\ TeamQueries[t].ok <=> t \notin teamFailed
                /\ TeamQueries[t].ok => idsOf(TeamQueries[t].items) \subseteq idsOf(views.toReview)
          /\ idsOf(fetched.personalReviews) \subseteq idsOf(views.toReview)

\* the first team failed and the item of the second team is in the list
C19_Witness ==
    /\ aggPc = "done"
    /\ Len(WORK_TEAMS) = 2
    /\ teamFailed = {1}
    /\ TeamQueries[2].items # <<>>
    /\ idsOf(TeamQueries[2].items) \cap idsOf(fetched.personalReviews) = {}
    /\ fetched.personalReviews # <<>>

\* one of the five required searches failed
RequiredQueryFailed ==
    \E k \in 1..Len(queries) : queries[k].name \in Range(RequiredQueries) /\ ~queries[k].ok

\* C20: once one of the five required searches has failed, fetchAllViews has
\* failed: no views are returned, no team search is issued, nothing is
\* displayed or notified, the run can only go on to the top-level catch and it
\* ends with exit code 1.
C20_RequiredFailureAbortsRun ==
    RequiredQueryFailed =>
        /\ aggPc = "failed"
        /\ views = NoViews
        /\ TeamQueries = <<>>
        /\ rendered = <<>>
        /\ notified = <<>>
        /\ listPc = "fetching" => ENABLED TopLevelCatch
        /\ listPc = "end" => exitCode = "1"

\* only the last of the five searches failed, teams are configured, and the run
\* has ended
C20_Witness ==
    /\ RequiredQueryFailed
    /\ queries[1].ok
    /\ WORK_TEAMS # <<>>
    /\ listPc = "end"
    /\ exitCode = "1"

\* C16: for every owner and repository name and every non-negative number, the
\* update operation accepts the key getIssueKey writes for owner/repo and the
\* number, and works on the same repository full name and the same number.
C16_IssueKeyRoundTrips ==
    keyPc = "parsed" =>
        /\ parsed.accepted
        /\ parsed.repo = keyItem.owner \o <<"/">> \o keyItem.repo
        /\ parsed.issueNumber = keyItem.number

\* a key with a number of three digits and names with "-" and "." was parsed
C16_Witness ==
    /\ keyPc = "parsed"
    /\ keyItem.number >= 100
    /\ "-" \in Range(keyItem.owner)
    /\ "." \in Range(keyItem.repo)
    /\ parsed.accepted

\* a key without "#", or whose number segment is not a non-empty run of digits
MalformedKey(issueKey) ==
    \/ ~includes(issueKey, "#")
    \/ LET segment == issueNumberStrOf(issueKey)
       IN  segment = <<>> \/ \E i \in 1..Len(segment) : ~IsDigit(segment[i])

\* C17 as stated: an update whose key has no "#", or whose number segment is not
\* a non-negative integer, ends in the failure exit at once, and no step of it
\* issues a label write or changes the annotation file.
C17_MalformedKeyIsRejected ==
    [][(isUpdate(args') /\ MalformedKey(args'.issueKey))
          => (updPc' = "exit1" /\ remotePuts' = remotePuts /\ file' = file)]_vars

\* the part of C17 that holds: a key without "#", or whose number segment does
\* not start with a digit (after white space and a sign), is rejected so
C17_UnparsableKeyIsRejected ==
    [][(isUpdate(args') /\ ~parseIssueKey(args'.issueKey).accepted)
          => (updPc' = "exit1" /\ remotePuts' = remotePuts /\ file' = file)]_vars

\* ======================================================================
\* properties of the update followed by a display
\* ======================================================================

\* C21 as stated: an update invoked together with --show has, when the process has
\* ended after persisting the update, displayed the to-do list.
C21_UpdateWithShowDisplaysList ==
    (show /\ updPc = "exit0" /\ saveResult = "ok") => rendered # <<>>

\* what happens instead: the update is persisted and the process ends with
\* nothing displayed
C21_UpdateWithShowOnlyPersists ==
    (show /\ updPc = "exit0" /\ saveResult = "ok")
        => /\ args.issueKey \in DOMAIN StoredIssues(file)
           /\ rendered = <<>>

\* C22: annotations are never deleted automatically. No step of any run (a
\* listing or an update, whatever the file held and whatever the remote
\* answered) removes a key from the persisted storage, and the step that saves
\* an update on key k leaves the annotation of every other key as it was.
C22_AnnotationsNeverDeleted ==
    [][\A k \in DOMAIN StoredIssues(file) :
          /\ k \in DOMAIN StoredIssues(file')
          /\ (k # args.issueKey => StoredIssues(file')[k] = StoredIssues(file)[k])]_vars

\* a second update was saved on another key than the one already stored
C22_Witness ==
    /\ updPc = "exit0"
    /\ saveResult = "ok"
    /\ file # fileAtStart
    /\ \E k \in DOMAIN StoredIssues(fileAtStart) :
          /\ k # args.issueKey
          /\ k \in DOMAIN StoredIssues(file)
          /\ StoredIssues(file)[k] = StoredIssues(fileAtStart)[k]
          /\ StoredIssues(file)[k].notes # <<>>

\* C23 as stated: save is crash-safe. When the process has stopped inside
\* saveTodoData the annotation file holds the complete previous storage or the
\* complete new storage.
C23_SaveIsCrashSafe ==
    updPc = "killed"
        => file \in {fileAtStart, [kind |-> "json", issues |-> todoData.issues]}

\* what a stop inside the write can cost: annotations had been saved before, and
\* the file left behind loads as an empty storage
C23_StorageLostAfterCrash ==
    /\ updPc = "killed"
    /\ file.kind \in {"empty", "partial"}
    /\ DOMAIN StoredIssues(fileAtStart) # {}
    /\ loadTodoData(file).issues = EmptyIssues

\* the cached title and url of key k in file f; <<>> when absent
CachedDetails(f, k) ==
    IF k \in DOMAIN StoredIssues(f)
    THEN <<StoredIssues(f)[k].title, StoredIssues(f)[k].url>>
    ELSE << <<>>, <<>> >>

\* C24: the cached title and url of an annotation are written only from a
\* successful issue-details fetch for that key. A step that changes the stored
\* title or url of a key is the save of the try block of an update on that key
\* whose details fetch answered ok, and it stores the title and url the remote
\* reported; so when the fetch is skipped, answers non-success or throws, the
\* stored title and url of the key stay as they were (absent if absent).
C24_DetailsOnlyFromSuccessfulFetch ==
    [][\A k \in DOMAIN StoredIssues(file') :
          CachedDetails(file', k) # CachedDetails(file, k)
              => /\ k = args.issueKey
                 /\ updPc = "save"
                 /\ issueResponse = "ok"
                 /\ CachedDetails(file', k) = <<RemoteTitle, RemoteUrl>>]_vars

\* an update of a key whose title and url are cached was saved after a
\* non-success response or by the catch block, and the cache is as it was
C24_Witness ==
    /\ updPc = "exit0"
    /\ saveResult = "ok"
    /\ file # fileAtStart
    /\ issueResponse \in {"notok", "none"}
    /\ CachedDetails(fileAtStart, args.issueKey) = <<RemoteTitle, RemoteUrl>>
    /\ CachedDetails(file, args.issueKey) = <<RemoteTitle, RemoteUrl>>

\* ======================================================================
\* properties of concurrent updates
\* ======================================================================

RaceDone == \A p \in Procs : racePc[p] = "done"

\* one invocation loaded and saved before the other loaded
RaceSequential ==
    /\ Len(raceOrder) >= 2
    /\ raceOrder[1][1] = raceOrder[2][1]

\* both invocations loaded before either saved
RaceInterleaved ==
    /\ Len(raceOrder) >= 2
    /\ raceOrder[1][2] = "load"
    /\ raceOrder[2][2] = "load"

\* the file holds the update of invocation p: its key, with its note, among as
\* many note entries as there are invocations on that key
RacePersisted(p) ==
    LET a == raceArgs[p]
        k == a.issueKey
    IN  /\ k \in DOMAIN StoredIssues(file)
        /\ Contains(StoredIssues(file)[k].notes,
                    Stamp([today |-> split(toISOString(now), "T")[1], note |-> a.note]))
        /\ Count(StoredIssues(file)[k].notes, "[")
              = Cardinality({q \in Procs : raceArgs[q].issueKey = k})

\* C25: the file is read entirely, changed in memory and rewritten entirely with
\* no locking. When both invocations have ended, the updates of both are in the
\* persisted file exactly when they ran one after the other; when both loaded
\* before either saved, the file lacks the update of one of them.
C25_LostUpdateUnlessSequential ==
    RaceDone => ((\A p \in Procs : RacePersisted(p)) <=> RaceSequential)

\* both invocations loaded before either saved, and the file lacks the update
\* of the one that saved first
C25_Witness ==
    /\ RaceDone
    /\ RaceInterleaved
    /\ ~RacePersisted(raceOrder[3][1])
    /\ RacePersisted(raceOrder[4][1])

\* an update invocation with a note and an accepted key has ended
NoteRunEnded ==
    /\ updPc \in {"exit0", "exit1"}
    /\ isUpdate(args)
    /\ args.hasNote
    /\ includes(args.issueKey, "#")
    /\ ~parseInt(issueNumberStrOf(args.issueKey)).nan

\* the stored notes of key k in file f; <<>> when the key is not stored
NotesOf(f, k) == IF k \in DOMAIN StoredIssues(f) THEN StoredIssues(f)[k].notes ELSE <<>>

\* the persisted notes of the key are those of the start of the invocation
\* followed by one entry for its note
OneEntryAdded ==
    LET before == NotesOf(fileAtStart, args.issueKey)
        after == NotesOf(file, args.issueKey)
    IN  /\ after = before \o (IF Len(before) > 0 THEN <<"\n\n">> ELSE <<>>)
                          \o Stamp(LoggedNote[1])
        /\ Count(after, "[") = Count(before, "[") + 1

\* C26 as stated: each update invocation that carries a note has, when it has
\* ended, added exactly one entry for that note to the persisted notes of the
\* key; the note is never applied twice and never dropped.
C26_NoteAddedExactlyOnce == NoteRunEnded => OneEntryAdded

\* the part of C26 that holds: an invocation whose save succeeded has added
\* exactly one entry, whether the details fetch succeeded, answered non-success,
\* was skipped, or threw after the in-memory copy was changed
C26_SavedNoteAddedExactlyOnce == (NoteRunEnded /\ saveResult = "ok") => OneEntryAdded

\* an invocation with a note has ended and the persisted notes of its key are
\* as they were
C26_NoteDropped ==
    /\ NoteRunEnded
    /\ NotesOf(file, args.issueKey) = NotesOf(fileAtStart, args.issueKey)
    /\ updated = "threw"

ValidStatuses == {"backlog", "in-progress", "blocked", "review"}

\* the invocation carries a --status value outside the four allowed ones
InvalidStatusGiven(a) == a.rawStatus # "" /\ a.rawStatus \notin ValidStatuses

\* C27: starting from a storage whose statuses are all among backlog,
\* in-progress, blocked and review, every stored status is among them after any
\* sequence of updates; and no step of an invocation whose --status value is
\* outside the set changes a stored status or issues a remote label write.
C27_StatusesStayValid ==
    /\ [](\A k \in DOMAIN StoredIssues(file) : StoredIssues(file)[k].status \in ValidStatuses)
    /\ [][InvalidStatusGiven(args')
            => /\ remotePuts' = remotePuts
               /\ \A k \in DOMAIN StoredIssues(file) :
                     /\ k \in DOMAIN StoredIssues(file')
                     /\ StoredIssues(file')[k].status = StoredIssues(file)[k].status]_vars

\* an update with --status=done and a note was saved for a key stored as
\* blocked: the note is added and the status is still blocked
C27_Witness ==
    /\ updPc = "exit0"
    /\ saveResult = "ok"
    /\ InvalidStatusGiven(args)
    /\ file # fileAtStart
    /\ args.issueKey \in DOMAIN StoredIssues(fileAtStart)
    /\ StoredIssues(fileAtStart)[args.issueKey].status = "blocked"
    /\ StoredIssues(file)[args.issueKey].status = "blocked"

\* ======================================================================
\* properties of the desktop notification
\* ======================================================================

\* the notification has been prepared for an integer count
PreparedForInteger == ntfPc = "prepared" /\ ~notificationCount.nan

\* the items of the notification that are in the to-review view
FromToReview == {i \in 1..Len(notificationItems) : notificationItems[i] \in Range(ntfViews.toReview)}

AtMost(n) == IF n < 0 THEN 0 ELSE n

\* the items are the first items of toReview, then of todo, then of reviewed
FilledInViewOrder ==
    \E r \in 0..Len(ntfViews.toReview), a \in 0..Len(ntfViews.todo),
       w \in 0..Len(ntfViews.reviewed) :
        notificationItems = SubSeq(ntfViews.toReview, 1, r) \o SubSeq(ntfViews.todo, 1, a)
                                \o SubSeq(ntfViews.reviewed, 1, w)

\* C28 as stated: for every integer count N given on the command line and all
\* view contents the notification lists at most N items (none when N is below
\* one), at most ceil(N/2) of them from the to-review view, filled in the order
\* to-review, assigned, reviewed.
C28_NotificationBounds ==
    PreparedForInteger
        => /\ Len(notificationItems) <= AtMost(notificationCount.value)
           /\ Cardinality(FromToReview) <= AtMost((notificationCount.value + 1) \div 2)
           /\ FilledInViewOrder

\* the part of C28 that holds: the bounds and the order for every count that is
\* not negative
C28_NonNegativeCountBounds ==
    (PreparedForInteger /\ notificationCount.value >= 0) => C28_NotificationBounds

\* -n=-2 with two pull requests to review: one item is listed
C28_NegativeCountLists ==
    /\ PreparedForInteger
    /\ notificationCount.value = 0 - 2
    /\ Len(ntfViews.toReview) = 2
    /\ Len(notificationItems) = 1

\* ======================================================================
\* properties of the standard display
\* ======================================================================

\* a listing run without --todo has ended normally
StandardListed == listPc = "end" /\ exitCode = "0" /\ ~todoMode

ViewNames == {"toReview", "todo", "done", "reviewed", "mentioned"}

Headings == {rendered[i].heading : i \in 1..Len(rendered)}

\* every non-empty view has its section, and the run does not say "No items found"
NonEmptyViewsDisplayed ==
    /\ \A name \in ViewNames :
          Len(views[name]) > 0
              => \E i \in 1..Len(rendered) :
                    /\ rendered[i].heading = name
                    /\ rendered[i].items = slice(views[name], 5)
    /\ "No items found" \notin Headings

\* C29 as stated: in standard mode, whenever at least one of the five views
\* (toReview, assigned, done, reviewed, mentioned) is non-empty, the items of
\* every non-empty view are displayed and the run does not report "No items found".
C29_NonEmptyViewsAreDisplayed ==
    (StandardListed /\ \E name \in ViewNames : Len(views[name]) > 0)
        => NonEmptyViewsDisplayed

\* the part of C29 that holds: when one of toReview, assigned, done and reviewed
\* is non-empty, every non-empty view (mentioned too) is displayed
C29_DisplayedWhenCountedViewNonEmpty ==
    (StandardListed /\ \E name \in ViewNames \ {"mentioned"} : Len(views[name]) > 0)
        => NonEmptyViewsDisplayed

\* only the mentioned view has items, and the run reports "No items found"
C29_MentionedOnlyReportsNoItems ==
    /\ StandardListed
    /\ Len(views.mentioned) > 0
    /\ totalItems(views) = 0
    /\ "No items found" \in Headings

\* ======================================================================
\* properties of the to-do display over the keys of updates
\* ======================================================================

\* the update operation accepts the key and takes it for the repository and
\* number of the item
SameIssue(key, item) ==
    LET pk == parseIssueKey(key)
    IN  pk.accepted /\ pk.repo = item.full_name /\ pk.issueNumber = item.number

\* the places <<section, position>> where the item is rendered
Occurrences(item) ==
    {<<k, j>> \in (1..Len(rendered)) \X (1..MaxLen + 1) :
        j <= Len(rendered[k].items) /\ rendered[k].items[j] = item}

RECURSIVE SumCounts(_, _)
SumCounts(sections, i) ==
    IF i > Len(sections) THEN 0 ELSE sections[i].count + SumCounts(sections, i + 1)

\* stored keys that are the key of no assigned issue, by repository and number
StoredNotAssigned ==
    {key \in DOMAIN todoData.issues :
        ~\E i \in 1..Len(views.todo) : SameIssue(key, views.todo[i])}

\* a to-do listing over a storage written by updates
TodoListedFromUpdates == TodoListed /\ file.kind = "json"

EachIssueRenderedOnce ==
    /\ \A key \in DOMAIN todoData.issues, i \in 1..Len(views.todo) :
          SameIssue(key, views.todo[i])
              => /\ Cardinality(Occurrences(views.todo[i])) = 1
                 /\ \A k \in 1..Len(rendered) :
                       /\ views.todo[i] \in Range(rendered[k].items)
                             => rendered[k].heading = StoredStatus(key)
                       /\ key \notin rendered[k].manual
    /\ SumCounts(rendered, 1) = Len(views.todo) + Cardinality(StoredNotAssigned)

\* C30 as stated: in the to-do display each logical issue is rendered exactly
\* once. For every key the update operation accepts, an issue of the assigned
\* view with an annotation stored for the same repository and number is shown
\* once, as an assigned item in the group of its stored status, and never also
\* as a manually tracked entry; the group counts add up to the number of
\* assigned items plus the number of stored keys not assigned.
C30_EachIssueRenderedOnce == TodoListedFromUpdates => EachIssueRenderedOnce

\* every stored key the update accepts is written the way getIssueKey writes it
CanonicalKeys ==
    \A key \in DOMAIN todoData.issues :
        LET pk == parseIssueKey(key)
        IN  pk.accepted => key = getIssueKey([full_name |-> pk.repo, number |-> pk.issueNumber])

\* the part of C30 that holds: the same over storages whose keys are written as
\* getIssueKey writes them
C30_CanonicalKeysRenderedOnce ==
    (TodoListedFromUpdates /\ CanonicalKeys) => EachIssueRenderedOnce

\* a/r#01 is stored as blocked and issue 1 of a/r is assigned: the issue is
\* listed in the backlog and the key is listed again as a blocked manual entry
C30_IssueRenderedTwice ==
    /\ TodoListedFromUpdates
    /\ \E key \in DOMAIN todoData.issues, i \in 1..Len(views.todo), k, m \in 1..Len(rendered) :
          /\ SameIssue(key, views.todo[i])
          /\ StoredStatus(key) = "blocked"
          /\ rendered[k].heading = "backlog" /\ views.todo[i] \in Range(rendered[k].items)
          /\ rendered[m].heading = "blocked" /\ key \in rendered[m].manual

====
